---- MODULE Spec2Model ----
(***************************************************************************)
(* Model of the nimbus provisioning / deprovisioning orchestrator          *)
(* (pkg/vm: AWSVM.Launch, AWSVM.Delete) together with the provider calls   *)
(* it issues.  The cloud is the environment: every provider call either    *)
(* succeeds or fails, and a call whose cloud-side precondition does not    *)
(* hold always fails.                                                      *)
(***************************************************************************)
EXTENDS Integers, Sequences, FiniteSets, TLC

VARIABLES
    deletionPlan,    \* plans.DeletionPlan: Spec (lists per kind) and Status (completed maps)
    described,       \* attachments / routes / associations recorded in the plan's resources
    exists,          \* cloud: resource ids that currently exist, per kind
    instanceState,   \* cloud: state of every instance
    attachments,     \* cloud: VPCs each internet gateway is attached to
    routes,          \* cloud: destinations of the routes of each route table
    associations,    \* cloud: association ids of each route table
    pc,              \* position of Delete
    kind,            \* index of the kind loop Delete is in (1..7, 8 = past the last loop)
    idx,             \* index into deletionPlan.Spec[kind]
    sub,             \* index of the sub-step inside igws.Delete / routetables.Delete
    inv,             \* number of Delete invocations started
    entry,           \* deletionPlan.Status as it was when the current invocation started
    reliable,        \* environment: no transient failures during the current invocation
    calls,           \* history: provider calls issued by Delete, in order
    results,         \* history: error value returned by each finished invocation
    dryRun,          \* Launch: the dryRun argument
    launchPlan,      \* Launch: plans.LaunchPlan (Spec selectors, Status)
    frame,           \* Launch: local variables (vpc, subnetList, securityGroups, ...)
    cloud,           \* Launch: resources of the namespace that exist, per kind; zones
    lpc,             \* Launch: position
    lsub,            \* Launch: index inside a provider's create loop
    lcalls,          \* history: provider calls issued by Launch, in order
    lret,            \* Launch: "none" while running, then the returned error or "panic"
    createOpts,      \* launchTemplateConfigs: fleets.CreateFleetOptions and the launch template
    configs,         \* launchTemplateConfigs: the returned list of configs
    fpc,             \* launchTemplateConfigs: "off", "called" or "returned"
    world,           \* DeletionPlan: the tagged resources of the account
    request,         \* DeletionPlan: the namespace and name arguments
    dplan,           \* DeletionPlan: deletionPlan.Spec, the resources resolved per kind
    dpc,             \* DeletionPlan: position ("off", "idle", "resolve", "returned")
    dkind,           \* DeletionPlan: index of the kind to resolve next
    dcalls,          \* history: provider calls issued by DeletionPlan, in order
    dret,            \* DeletionPlan: "none" while running, then the returned error
    account,         \* concurrent Launch: the tagged VPCs of the account
    launchers,       \* concurrent Launch: namespace, name, position, locals of each invocation
    ccalls,          \* history: provider calls of the concurrent invocations, in order
    amiSelectors,    \* amis.Resolve: the selectors argument
    amiList,         \* amis.Resolve: the local list amis
    resolveAMIDetails, \* amis.Resolve: the AMI ids read from SSM so far
    apc,             \* amis.Resolve: position
    ai,              \* amis.Resolve: index of the selector the loop is at
    acalls,          \* history: the queries amis.Resolve issued, with their results
    aret,            \* amis.Resolve: "none" while running, then the returned error
    rprovider,       \* Resolve: the provider package (subnets, securitygroups, instances)
    rselectors,      \* Resolve: the selectors argument
    rgroups,         \* Resolve: the result of filterSets(selectors)
    rlist,           \* Resolve: the local list of resources
    rpc,             \* Resolve: position
    ri,              \* Resolve: index of the filter group the loop is at
    rcalls,          \* history: the describe calls Resolve issued
    rret,            \* Resolve: "none" while running, then the returned error
    input,           \* ParseSelectorsTokens: the selectors argument, a list of tokens
    shape,           \* ParseSelectorsTokens: the criteria the input was written from, if any
    parsed,          \* ParseSelectorsTokens: the returned list of selectors
    perr,            \* ParseSelectorsTokens: "none" before the return, then the error
    ppc,             \* ParseSelectorsTokens: "off", "called" or "returned"
    force,           \* nimbus delete: the --force flag
    stdin,           \* nimbus delete: the characters waiting on standard input
    userInput,       \* nimbus delete: what reader.ReadString returned
    cpc,             \* nimbus delete: position
    cliCalls,        \* history: the calls of the command on the vm client, in order
    cret             \* nimbus delete: "none" while running, then the returned error

deleteVars == <<deletionPlan, described, exists, instanceState, attachments, routes,
                associations, pc, kind, idx, sub, inv, entry, reliable, calls, results>>

launchVars == <<dryRun, launchPlan, frame, cloud, lpc, lsub, lcalls, lret>>

fleetVars == <<createOpts, configs, fpc>>

discoveryVars == <<world, request, dplan, dpc, dkind, dcalls, dret>>

concurrentVars == <<account, launchers, ccalls>>

amiVars == <<amiSelectors, amiList, resolveAMIDetails, apc, ai, acalls, aret>>

resolveVars == <<rprovider, rselectors, rgroups, rlist, rpc, ri, rcalls, rret>>

parseVars == <<input, shape, parsed, perr, ppc>>

cliVars == <<force, stdin, userInput, cpc, cliCalls, cret>>

\* what an action of each operation leaves alone: the variables of the other operations
notDeleteVars ==
    <<launchVars, fleetVars, discoveryVars, concurrentVars, amiVars, resolveVars,
      parseVars, cliVars>>

notLaunchVars ==
    <<deleteVars, fleetVars, discoveryVars, concurrentVars, amiVars, resolveVars,
      parseVars, cliVars>>

notFleetVars ==
    <<deleteVars, launchVars, discoveryVars, concurrentVars, amiVars, resolveVars,
      parseVars, cliVars>>

notDiscoveryVars ==
    <<deleteVars, launchVars, fleetVars, concurrentVars, amiVars, resolveVars,
      parseVars, cliVars>>

notConcurrentVars ==
    <<deleteVars, launchVars, fleetVars, discoveryVars, amiVars, resolveVars,
      parseVars, cliVars>>

notAmiVars ==
    <<deleteVars, launchVars, fleetVars, discoveryVars, concurrentVars, resolveVars,
      parseVars, cliVars>>

notResolveVars ==
    <<deleteVars, launchVars, fleetVars, discoveryVars, concurrentVars, amiVars, parseVars,
      cliVars>>

notParseVars ==
    <<deleteVars, launchVars, fleetVars, discoveryVars, concurrentVars, amiVars, resolveVars,
      cliVars>>

notCliVars ==
    <<deleteVars, launchVars, fleetVars, discoveryVars, concurrentVars, amiVars, resolveVars,
      parseVars>>

vars ==
    <<deleteVars, launchVars, fleetVars, discoveryVars, concurrentVars, amiVars, resolveVars,
      parseVars, cliVars>>

----------------------------------------------------------------------------
(* Bounds *)

MaxPlanSize == 2

MaxInvocations == 2

MaxZones == 4

MaxAMIs == 2

MaxInstanceTypes == 3

MaxSubnets == 2

MaxOtherResources == 1

----------------------------------------------------------------------------
(* Resource kinds in the order of the loops of Delete *)

Kinds == <<"Instances", "LaunchTemplates", "SecurityGroups", "InternetGateways",
           "RouteTables", "Subnets", "VPCs">>

KindSet == {Kinds[n] : n \in 1..Len(Kinds)}


Ids == [Instances |-> {"i-1", "i-2"}, LaunchTemplates |-> {"lt-1"},
        SecurityGroups |-> {"sg-1"}, InternetGateways |-> {"igw-1"},
        RouteTables |-> {"rtb-1"}, Subnets |-> {"subnet-1"}, VPCs |-> {"vpc-1"}]

SeqsUpTo(S, n) == UNION {[1..m -> S] : m \in 0..n}

Range(s) == {s[n] : n \in 1..Len(s)}

RECURSIVE SumLen(_, _)
SumLen(spec, n) == IF n = 0 THEN 0 ELSE Len(spec[Kinds[n]]) + SumLen(spec, n - 1)

\* A route of a described route table: destination and target gateway
LocalRoute == [DestinationCidrBlock |-> "10.0.0.0/16", GatewayId |-> "local"]
IgwRoute == [DestinationCidrBlock |-> "0.0.0.0/0", GatewayId |-> "igw-1"]

----------------------------------------------------------------------------
(* plans.DeletionStatus: one map[string]bool per kind; a map is nil until   *)
(* its first write                                                          *)

NilMap == [isNil |-> TRUE, ids |-> {}]

\* variant: the completed check is dropped
CompletedNever(plan, k, id) == FALSE

\* variant: only the marks the plan held when Delete was called are seen
CompletedAtEntry(plan, k, id) == id \in entry[k].ids

\* deletionPlan.Status.<Kind>[id]  (a lookup in a nil map yields false)
Completed(plan, k, id) == id \in plan.Status[k].ids

\* variant: a successful deletion is not recorded
MarkNothing(plan, k, id) == plan

\* variant: a nil map is left nil and the deletion is recorded in a map that exists only
MarkUnlessNil(plan, k, id) ==
    IF plan.Status[k].isNil THEN plan
    ELSE [plan EXCEPT !.Status[k] = [isNil |-> FALSE, ids |-> plan.Status[k].ids \cup {id}]]

\* if Status.<Kind> == nil { Status.<Kind> = map[string]bool{} }; Status.<Kind>[id] = true
MarkCompleted(plan, k, id) ==
    [plan EXCEPT !.Status[k] = [isNil |-> FALSE, ids |-> plan.Status[k].ids \cup {id}]]

----------------------------------------------------------------------------
(* Environment: outcome of a provider call.  A call whose cloud-side       *)
(* precondition fails always errs; otherwise it may err transiently unless *)
(* the environment is reliable for this invocation.                        *)

Outcomes(pre) == IF ~pre THEN {"err"} ELSE IF reliable THEN {"ok"} ELSE {"ok", "err"}

Call(api, k, id, res) == [inv |-> inv, api |-> api, kind |-> k, id |-> id, res |-> res]

----------------------------------------------------------------------------
(* AWSVM.Delete *)

\* variant: the security-group loop placed before the launch-template loop
KindOfLoopSwapped(n) == IF n = 2 THEN Kinds[3] ELSE IF n = 3 THEN Kinds[2] ELSE Kinds[n]

\* the kind handled by the n-th loop of Delete
KindOfLoop(n) == Kinds[n]

CurList == deletionPlan.Spec[KindOfLoop(kind)]

Cur == CurList[idx]

\* Delete stands at a resource of kind k that is not skipped as completed
AtResource(k) ==
    /\ pc = "loop"
    /\ kind <= Len(Kinds)
    /\ KindOfLoop(kind) = k
    /\ idx <= Len(CurList)
    /\ ~Completed(deletionPlan, k, Cur)

\* variant: a failed call is tried again instead of being returned
RetryOnError(err) ==
    IF err = "nil"
    THEN pc' = "returned" /\ results' = Append(results, err)
    ELSE pc' = "loop" /\ UNCHANGED results

\* return deletionPlan, err
Return(err) ==
    /\ pc' = "returned"
    /\ results' = Append(results, err)

\* the resource was deleted: mark it and move to the next element of the loop
Done(k, id) ==
    /\ deletionPlan' = MarkCompleted(deletionPlan, k, id)
    /\ idx' = idx + 1
    /\ sub' = 1
    /\ pc' = "loop"
    /\ UNCHANGED results

\* vmClient.Delete(ctx, deletionPlan)
DeleteCall ==
    /\ pc \in {"idle", "returned"}
    /\ inv < MaxInvocations
    /\ inv' = inv + 1
    /\ entry' = deletionPlan.Status
    /\ reliable' \in BOOLEAN
    /\ kind' = 1
    /\ idx' = 1
    /\ sub' = 1
    /\ pc' = "loop"
    /\ UNCHANGED <<deletionPlan, described, exists, instanceState, attachments, routes,
                   associations, calls, results>>
    /\ UNCHANGED notDeleteVars

\* if deletionPlan.Status.<Kind>[id] { continue }
SkipCompleted ==
    /\ pc = "loop"
    /\ kind <= Len(Kinds)
    /\ idx <= Len(CurList)
    /\ Completed(deletionPlan, KindOfLoop(kind), Cur)
    /\ idx' = idx + 1
    /\ UNCHANGED <<deletionPlan, described, exists, instanceState, attachments, routes,
                   associations, pc, kind, sub, inv, entry, reliable, calls, results>>
    /\ UNCHANGED notDeleteVars

\* the range loop over one kind is exhausted: fall through to the next loop
NextLoop ==
    /\ pc = "loop"
    /\ kind <= Len(Kinds)
    /\ idx > Len(CurList)
    /\ kind' = kind + 1
    /\ idx' = 1
    /\ UNCHANGED <<deletionPlan, described, exists, instanceState, attachments, routes,
                   associations, pc, sub, inv, entry, reliable, calls, results>>
    /\ UNCHANGED notDeleteVars

\* return deletionPlan, nil
ReturnNil ==
    /\ pc = "loop"
    /\ kind > Len(Kinds)
    /\ Return("nil")
    /\ UNCHANGED <<deletionPlan, described, exists, instanceState, attachments, routes,
                   associations, kind, idx, sub, inv, entry, reliable, calls>>
    /\ UNCHANGED notDeleteVars

\* instances.Watcher.TerminateInstance, first half: the TerminateInstances call
TerminateInstances ==
    /\ AtResource("Instances")
    /\ \E res \in Outcomes(Cur \in exists["Instances"]) :
        /\ calls' = Append(calls, Call("TerminateInstances", "Instances", Cur, res))
        /\ IF res = "ok"
           THEN /\ instanceState' = [instanceState EXCEPT ![Cur] =
                        IF @ = "terminated" THEN @ ELSE "shutting-down"]
                /\ pc' = "awaitTick"
                /\ UNCHANGED results
           ELSE /\ Return("err")
                /\ UNCHANGED instanceState
    /\ UNCHANGED <<deletionPlan, described, exists, attachments, routes, associations,
                   kind, idx, sub, inv, entry, reliable>>
    /\ UNCHANGED notDeleteVars

\* for range time.NewTicker(2 * time.Second).C
Tick ==
    /\ pc = "awaitTick"
    /\ pc' = "resolveTerminated"
    /\ UNCHANGED <<deletionPlan, described, exists, instanceState, attachments, routes,
                   associations, kind, idx, sub, inv, entry, reliable, calls, results>>
    /\ UNCHANGED notDeleteVars

\* variant: the loop breaks on the first successful poll, whatever it returned
ObservedAlways(state) == TRUE

\* what a poll with selector {ID, State: "terminated"} finds: len(terminatedInstances) > 0
ObservedTerminated(state) == state = "terminated"

\* consecutive identical polls are recorded once
LogPoll(rec) == IF calls # <<>> /\ calls[Len(calls)] = rec THEN calls ELSE Append(calls, rec)

\* instances.Watcher.TerminateInstance, loop body: Resolve and test the result
ResolveTerminated ==
    /\ pc = "resolveTerminated"
    /\ \E res \in Outcomes(TRUE) :
        IF res = "err"
        THEN /\ calls' = LogPoll(Call("DescribeInstances", "Instances", Cur, "err"))
             /\ Return("err")
             /\ UNCHANGED <<deletionPlan, idx, sub>>
        ELSE IF ObservedTerminated(instanceState[Cur])
        THEN /\ calls' = LogPoll(Call("DescribeInstances", "Instances", Cur, "terminated"))
             /\ Done("Instances", Cur)
        ELSE /\ calls' = LogPoll(Call("DescribeInstances", "Instances", Cur, "pending"))
             /\ pc' = "awaitTick"
             /\ UNCHANGED <<deletionPlan, idx, sub, results>>
    /\ UNCHANGED <<described, exists, instanceState, attachments, routes, associations,
                   kind, inv, entry, reliable>>
    /\ UNCHANGED notDeleteVars

\* environment: an instance that is shutting down reaches the terminated state
InstanceTerminates ==
    /\ \E id \in Ids["Instances"] :
        /\ instanceState[id] = "shutting-down"
        /\ instanceState' = [instanceState EXCEPT ![id] = "terminated"]
    /\ UNCHANGED <<deletionPlan, described, exists, attachments, routes, associations,
                   pc, kind, idx, sub, inv, entry, reliable, calls, results>>
    /\ UNCHANGED notDeleteVars

\* a kind whose deletion is one provider call
SimpleDelete(k, api) ==
    /\ AtResource(k)
    /\ \E res \in Outcomes(Cur \in exists[k]) :
        /\ calls' = Append(calls, Call(api, k, Cur, res))
        /\ IF res = "ok"
           THEN /\ exists' = [exists EXCEPT ![k] = @ \ {Cur}]
                /\ Done(k, Cur)
           ELSE /\ Return("err")
                /\ UNCHANGED <<deletionPlan, exists, idx, sub>>
    /\ UNCHANGED <<described, instanceState, attachments, routes, associations,
                   kind, inv, entry, reliable>>
    /\ UNCHANGED notDeleteVars

DeleteLaunchTemplate == SimpleDelete("LaunchTemplates", "DeleteLaunchTemplate")

DeleteSecurityGroup == SimpleDelete("SecurityGroups", "DeleteSecurityGroup")

DeleteSubnet == SimpleDelete("Subnets", "DeleteSubnet")

DeleteVpc == SimpleDelete("VPCs", "DeleteVpc")

\* igws.Watcher.Delete: for _, attachment := range igw.Attachments { DetachInternetGateway }
DetachInternetGateway ==
    /\ AtResource("InternetGateways")
    /\ sub <= Len(described.Attachments[Cur])
    /\ LET vpcId == described.Attachments[Cur][sub] IN
       \E res \in Outcomes(vpcId \in attachments[Cur]) :
        /\ calls' = Append(calls, Call("DetachInternetGateway", "InternetGateways", Cur, res))
        /\ IF res = "ok"
           THEN /\ attachments' = [attachments EXCEPT ![Cur] = @ \ {vpcId}]
                /\ sub' = sub + 1
                /\ UNCHANGED <<pc, results>>
           ELSE /\ Return("err")
                /\ UNCHANGED <<attachments, sub>>
    /\ UNCHANGED <<deletionPlan, described, exists, instanceState, routes, associations,
                   kind, idx, inv, entry, reliable>>
    /\ UNCHANGED notDeleteVars

\* igws.Watcher.Delete: DeleteInternetGateway after the detach loop
DeleteInternetGateway ==
    /\ AtResource("InternetGateways")
    /\ sub > Len(described.Attachments[Cur])
    /\ \E res \in Outcomes(Cur \in exists["InternetGateways"] /\ attachments[Cur] = {}) :
        /\ calls' = Append(calls, Call("DeleteInternetGateway", "InternetGateways", Cur, res))
        /\ IF res = "ok"
           THEN /\ exists' = [exists EXCEPT !["InternetGateways"] = @ \ {Cur}]
                /\ Done("InternetGateways", Cur)
           ELSE /\ Return("err")
                /\ UNCHANGED <<deletionPlan, exists, idx, sub>>
    /\ UNCHANGED <<described, instanceState, attachments, routes, associations,
                   kind, inv, entry, reliable>>
    /\ UNCHANGED notDeleteVars

\* variant: no route is taken for a route to an internet gateway
NoGatewayRoute(route) == FALSE

\* route.GatewayId != nil && strings.HasPrefix(*route.GatewayId, "igw-")
IsGatewayRoute(route) == route.GatewayId \in Ids["InternetGateways"]

\* routetables.Watcher.Delete, first loop: a route that targets no internet gateway is passed over
PassRoute ==
    /\ AtResource("RouteTables")
    /\ sub <= Len(described.Routes[Cur])
    /\ ~IsGatewayRoute(described.Routes[Cur][sub])
    /\ sub' = sub + 1
    /\ UNCHANGED <<deletionPlan, described, exists, instanceState, attachments, routes,
                   associations, pc, kind, idx, inv, entry, reliable, calls, results>>
    /\ UNCHANGED notDeleteVars

\* routetables.Watcher.Delete, first loop: DeleteRoute of a route that targets an internet gateway
DeleteRoute ==
    /\ AtResource("RouteTables")
    /\ sub <= Len(described.Routes[Cur])
    /\ IsGatewayRoute(described.Routes[Cur][sub])
    /\ LET dest == described.Routes[Cur][sub].DestinationCidrBlock IN
       \E res \in Outcomes(dest \in routes[Cur]) :
        /\ calls' = Append(calls, Call("DeleteRoute", "RouteTables", Cur, res))
        /\ IF res = "ok"
           THEN /\ routes' = [routes EXCEPT ![Cur] = @ \ {dest}]
                /\ sub' = sub + 1
                /\ UNCHANGED <<pc, results>>
           ELSE /\ Return("err")
                /\ UNCHANGED <<routes, sub>>
    /\ UNCHANGED <<deletionPlan, described, exists, instanceState, attachments, associations,
                   kind, idx, inv, entry, reliable>>
    /\ UNCHANGED notDeleteVars

\* routetables.Watcher.Delete, second loop: DisassociateRouteTable of every recorded association
DisassociateRouteTable ==
    /\ AtResource("RouteTables")
    /\ sub > Len(described.Routes[Cur])
    /\ sub <= Len(described.Routes[Cur]) + Len(described.Associations[Cur])
    /\ LET assoc == described.Associations[Cur][sub - Len(described.Routes[Cur])] IN
       \E res \in Outcomes(assoc \in associations[Cur]) :
        /\ calls' = Append(calls, Call("DisassociateRouteTable", "RouteTables", Cur, res))
        /\ IF res = "ok"
           THEN /\ associations' = [associations EXCEPT ![Cur] = @ \ {assoc}]
                /\ sub' = sub + 1
                /\ UNCHANGED <<pc, results>>
           ELSE /\ Return("err")
                /\ UNCHANGED <<associations, sub>>
    /\ UNCHANGED <<deletionPlan, described, exists, instanceState, attachments, routes,
                   kind, idx, inv, entry, reliable>>
    /\ UNCHANGED notDeleteVars

\* routetables.Watcher.Delete: DeleteRouteTable after both loops
DeleteRouteTable ==
    /\ AtResource("RouteTables")
    /\ sub > Len(described.Routes[Cur]) + Len(described.Associations[Cur])
    /\ \E res \in Outcomes(Cur \in exists["RouteTables"] /\ associations[Cur] = {}) :
        /\ calls' = Append(calls, Call("DeleteRouteTable", "RouteTables", Cur, res))
        /\ IF res = "ok"
           THEN /\ exists' = [exists EXCEPT !["RouteTables"] = @ \ {Cur}]
                /\ routes' = [routes EXCEPT ![Cur] = {}]
                /\ Done("RouteTables", Cur)
           ELSE /\ Return("err")
                /\ UNCHANGED <<deletionPlan, exists, routes, idx, sub>>
    /\ UNCHANGED <<described, instanceState, attachments, associations,
                   kind, inv, entry, reliable>>
    /\ UNCHANGED notDeleteVars

----------------------------------------------------------------------------
(* plans.LaunchPlan *)

\* plans.LaunchStatus{}
EmptyLaunchStatus ==
    [AMIs |-> <<>>, InstanceTypes |-> <<>>, Subnets |-> <<>>, VPC |-> "",
     InternetGateway |-> "", RouteTables |-> <<>>, SecurityGroups |-> <<>>,
     LaunchTemplate |-> "", Instances |-> <<>>]

\* the local variables of Launch before their first assignment
EmptyFrame ==
    [existingVPCs |-> <<>>, vpc |-> "", subnetSpecs |-> <<>>, subnetList |-> <<>>, securityGroups |-> <<>>,
     igw |-> "", publicRouteTable |-> "", templateSecurityGroups |-> <<>>,
     launchTemplateID |-> "",
     launchTemplateConfigs |-> <<>>, fleetID |-> ""]

EmptyCloud ==
    [VPCs |-> {}, Subnets |-> {}, InternetGateways |-> {}, RouteTables |-> {},
     SecurityGroups |-> {}, LaunchTemplates |-> {}, ForeignLaunchTemplates |-> {},
     Fleets |-> {}, Instances |-> {}, Zones |-> 0]
\* ForeignLaunchTemplates: templates that hold the name namespace/name without the tags

\* no ParseSelectorsTokens takes place
ParseIdle ==
    /\ input = <<>>
    /\ shape = <<>>
    /\ parsed = <<>>
    /\ perr = "none"
    /\ ppc = "off"

\* no delete command takes place
CliIdle ==
    /\ force = FALSE
    /\ stdin = <<>>
    /\ userInput = <<>>
    /\ cpc = "off"
    /\ cliCalls = <<>>
    /\ cret = "none"

\* no Resolve of subnets, security groups or instances takes place
ResolveIdle ==
    /\ rprovider = "none"
    /\ rselectors = <<>>
    /\ rgroups = <<>>
    /\ rlist = <<>>
    /\ rpc = "off"
    /\ ri = 1
    /\ rcalls = <<>>
    /\ rret = "none"

\* no amis.Resolve takes place
AmiIdle ==
    /\ amiSelectors = <<>>
    /\ amiList = <<>>
    /\ resolveAMIDetails = <<>>
    /\ apc = "off"
    /\ ai = 1
    /\ acalls = <<>>
    /\ aret = "none"

\* no concurrent Launch takes place
ConcurrentIdle ==
    /\ account = {}
    /\ launchers = <<>>
    /\ ccalls = <<>>

\* no DeletionPlan takes place
DiscoveryIdle ==
    /\ world = {}
    /\ request = [namespace |-> "", name |-> ""]
    /\ dplan = [k \in KindSet |-> <<>>]
    /\ dpc = "off"
    /\ dkind = 1
    /\ dcalls = <<>>
    /\ dret = "none"

\* no call of launchTemplateConfigs takes place
FleetIdle ==
    /\ createOpts = [LaunchTemplate |-> "", AMIs |-> <<>>, InstanceTypes |-> <<>>,
                     Subnets |-> <<>>]
    /\ configs = <<>>
    /\ fpc = "off"

\* no Launch takes place
LaunchIdle ==
    /\ dryRun = FALSE
    /\ launchPlan = [Spec |-> [SubnetSelectors |-> <<>>, SecurityGroupSelectors |-> <<>>],
                     Status |-> EmptyLaunchStatus]
    /\ frame = EmptyFrame
    /\ cloud = EmptyCloud
    /\ lpc = "off"
    /\ lsub = 1
    /\ lcalls = <<>>
    /\ lret = "none"

----------------------------------------------------------------------------
(* Initial states: a plan as DeletionPlan builds it (Status empty, every   *)
(* map nil) for resources that exist, instances running                    *)

PlanSpecs ==
    {spec \in [Instances : SeqsUpTo(Ids["Instances"], MaxPlanSize),
                LaunchTemplates : SeqsUpTo(Ids["LaunchTemplates"], MaxPlanSize),
                SecurityGroups : SeqsUpTo(Ids["SecurityGroups"], MaxPlanSize),
                InternetGateways : SeqsUpTo(Ids["InternetGateways"], MaxPlanSize),
                RouteTables : SeqsUpTo(Ids["RouteTables"], MaxPlanSize),
                Subnets : SeqsUpTo(Ids["Subnets"], MaxPlanSize),
                VPCs : SeqsUpTo(Ids["VPCs"], MaxPlanSize)] :
        SumLen(spec, Len(Kinds)) <= MaxPlanSize}

Descriptions(spec) ==
    {[Attachments |-> [id \in Ids["InternetGateways"] |-> att],
      Routes |-> [id \in Ids["RouteTables"] |-> rts],
      Associations |-> [id \in Ids["RouteTables"] |-> asc]] :
        att \in IF spec["InternetGateways"] = <<>> THEN {<<>>} ELSE {<<>>, <<"vpc-1">>},
        rts \in IF spec["RouteTables"] = <<>> THEN {<<>>}
                ELSE {<<LocalRoute>>, <<LocalRoute, IgwRoute>>},
        asc \in IF spec["RouteTables"] = <<>> THEN {<<>>} ELSE {<<>>, <<"rtbassoc-1">>}}

InitDelete ==
    /\ \E spec \in PlanSpecs :
        /\ deletionPlan = [Spec |-> spec, Status |-> [k \in KindSet |-> NilMap]]
        /\ described \in Descriptions(spec)
        /\ exists = [k \in KindSet |-> Range(spec[k])]
        /\ instanceState = [id \in Ids["Instances"] |->
                IF id \in Range(spec["Instances"]) THEN "running" ELSE "none"]
    /\ attachments = [id \in Ids["InternetGateways"] |-> Range(described.Attachments[id])]
    /\ routes = [id \in Ids["RouteTables"] |->
            {described.Routes[id][n].DestinationCidrBlock : n \in 1..Len(described.Routes[id])}]
    /\ associations = [id \in Ids["RouteTables"] |-> Range(described.Associations[id])]
    /\ pc = "idle"
    /\ kind = 1
    /\ idx = 1
    /\ sub = 1
    /\ inv = 0
    /\ entry = deletionPlan.Status
    /\ reliable = FALSE
    /\ calls = <<>>
    /\ results = <<>>
    /\ LaunchIdle
    /\ FleetIdle
    /\ DiscoveryIdle
    /\ ConcurrentIdle
    /\ AmiIdle
    /\ ResolveIdle
    /\ ParseIdle
    /\ CliIdle

NextDelete ==
    \/ DeleteCall
    \/ SkipCompleted
    \/ NextLoop
    \/ ReturnNil
    \/ TerminateInstances
    \/ Tick
    \/ ResolveTerminated
    \/ InstanceTerminates
    \/ DeleteLaunchTemplate
    \/ DeleteSecurityGroup
    \/ DetachInternetGateway
    \/ DeleteInternetGateway
    \/ PassRoute
    \/ DeleteRoute
    \/ DisassociateRouteTable
    \/ DeleteRouteTable
    \/ DeleteSubnet
    \/ DeleteVpc

SpecDelete == InitDelete /\ [][NextDelete]_vars

\* the steps Delete takes by itself once invoked
DeleteStep ==
    \/ SkipCompleted
    \/ NextLoop
    \/ ReturnNil
    \/ TerminateInstances
    \/ Tick
    \/ ResolveTerminated
    \/ DeleteLaunchTemplate
    \/ DeleteSecurityGroup
    \/ DetachInternetGateway
    \/ DeleteInternetGateway
    \/ PassRoute
    \/ DeleteRoute
    \/ DisassociateRouteTable
    \/ DeleteRouteTable
    \/ DeleteSubnet
    \/ DeleteVpc

\* Delete runs synchronously on the caller's goroutine: an invoked Delete keeps stepping
LiveDelete == SpecDelete /\ WF_vars(DeleteStep)

----------------------------------------------------------------------------
(* Properties of Delete *)

\* the order of deletion stated by the specification
DeletionOrder == <<"Instances", "LaunchTemplates", "SecurityGroups", "InternetGateways",
                   "RouteTables", "Subnets", "VPCs">>

Rank(k) == CHOOSE n \in 1..Len(DeletionOrder) : DeletionOrder[n] = k

\* the call that completes the deletion of its resource
Completes(c) ==
    \/ c.res = "ok" /\ c.api \in {"DeleteLaunchTemplate", "DeleteSecurityGroup",
                                  "DeleteInternetGateway", "DeleteRouteTable",
                                  "DeleteSubnet", "DeleteVpc"}
    \/ c.res = "terminated" /\ c.api = "DescribeInstances"

\* ids of kind k whose deletion completed during invocation n
Succeeded(n, k) ==
    {calls[p].id : p \in {q \in 1..Len(calls) :
        calls[q].inv = n /\ calls[q].kind = k /\ Completes(calls[q])}}

PlanSize == SumLen(deletionPlan.Spec, Len(Kinds))

\* C1: a resource marked completed when Delete is called gets no provider call during
\* that invocation, and a Delete that follows a fully successful Delete issues no
\* provider call at all.
C1_IdempotentRetry ==
    \A p \in 1..Len(calls) :
        /\ calls[p].inv = inv => calls[p].id \notin entry[calls[p].kind].ids
        /\ calls[p].inv > 1 => results[calls[p].inv - 1] # "nil"

C1_Witness ==
    /\ inv = 2
    /\ pc = "returned"
    /\ results[1] = "nil"
    /\ PlanSize = MaxPlanSize

\* C2: when a provider call for a resource of some kind is issued, every resource of
\* every earlier kind (instances, launch templates, security groups, internet gateways,
\* route tables, subnets, VPCs) was completed at entry or has been deleted successfully
\* earlier in the same invocation.
C2_KindOrder ==
    \A p \in 1..Len(calls) :
        calls[p].inv = inv =>
            \A k \in KindSet :
                Rank(k) < Rank(calls[p].kind) =>
                    \A id \in Range(deletionPlan.Spec[k]) :
                        \/ id \in entry[k].ids
                        \/ \E q \in 1..(p - 1) :
                            /\ calls[q].inv = inv
                            /\ calls[q].kind = k
                            /\ calls[q].id = id
                            /\ Completes(calls[q])

C2_Witness ==
    \E p, q \in 1..Len(calls) :
        /\ p < q
        /\ calls[p].inv = inv
        /\ calls[q].inv = inv
        /\ Rank(calls[p].kind) < Rank(calls[q].kind)
        /\ Rank(calls[p].kind) > 1

\* C3: the completed maps hold exactly the ids marked at entry plus the ids whose
\* deletion succeeded in this invocation, at every moment (so each id is marked before
\* the next resource is attempted); a failed provider call is the last call of its
\* invocation and makes Delete return the error.
C3_StopOnFirstFailure ==
    /\ \A k \in KindSet :
        deletionPlan.Status[k].ids = entry[k].ids \cup Succeeded(inv, k)
    /\ \A p \in 1..Len(calls) :
        calls[p].res = "err" =>
            /\ p = Len(calls) \/ calls[p + 1].inv > calls[p].inv
            /\ Len(results) >= calls[p].inv
            /\ results[calls[p].inv] = "err"
    /\ pc = "returned" /\ results[inv] = "err" =>
        /\ calls # <<>>
        /\ calls[Len(calls)].inv = inv
        /\ calls[Len(calls)].res = "err"

C3_Witness ==
    /\ pc = "returned"
    /\ results[inv] = "err"
    /\ \E k \in KindSet : Succeeded(inv, k) # {}
    /\ \E k \in KindSet : Range(deletionPlan.Spec[k]) \ deletionPlan.Status[k].ids # {}

\* C4: an instance is marked terminated only when the cloud has it in state terminated,
\* and no call for a resource of another kind is issued before a poll of this invocation
\* has observed every instance of the plan, not completed at entry, as terminated.
C4_TerminationBlocks ==
    /\ \A id \in deletionPlan.Status["Instances"].ids : instanceState[id] = "terminated"
    /\ \A p \in 1..Len(calls) :
        calls[p].inv = inv /\ calls[p].kind # "Instances" =>
            \A id \in Range(deletionPlan.Spec["Instances"]) \ entry["Instances"].ids :
                /\ instanceState[id] = "terminated"
                /\ \E q \in 1..(p - 1) :
                    /\ calls[q].inv = inv
                    /\ calls[q].id = id
                    /\ calls[q].api = "DescribeInstances"
                    /\ calls[q].res = "terminated"

C4_Witness ==
    \E p \in 1..Len(calls) :
        /\ calls[p].inv = inv
        /\ calls[p].kind # "Instances"
        /\ Range(deletionPlan.Spec["Instances"]) \ entry["Instances"].ids # {}

\* C5: a Delete re-invoked with the plan returned by a failed Delete, in an environment
\* where every call whose precondition holds succeeds, returns nil with every resource
\* of the plan deleted and marked completed.
C5_RetryResumes ==
    (pc = "returned" /\ inv > 1 /\ results[inv - 1] = "err" /\ reliable) =>
        /\ results[inv] = "nil"
        /\ \A k \in KindSet : \A id \in Range(deletionPlan.Spec[k]) :
            /\ id \in deletionPlan.Status[k].ids
            /\ IF k = "Instances" THEN instanceState[id] = "terminated"
                                  ELSE id \notin exists[k]

\* C6: the convergence wait of TerminateInstance is bounded: once waiting, TerminateInstance
\* eventually leaves the polling loop, even if the instance never becomes terminated.
C6_BoundedPolling ==
    [](pc = "awaitTick" => <>(pc \notin {"awaitTick", "resolveTerminated"}))

----------------------------------------------------------------------------
(* AWSVM.Launch *)

RECURSIVE SeqOf(_)
\* the list a Resolve returns for a set of matching resources
SeqOf(S) == IF S = {} THEN <<>> ELSE LET x == CHOOSE y \in S : TRUE IN <<x>> \o SeqOf(S \ {x})

Min(a, b) == IF a < b THEN a ELSE b

\* resources that the explicit selectors of the request match
SelectedSubnets == {"subnet-a"}

SelectedSecurityGroups == {"sg-a"}

\* what the AMI and instance-type selectors of the request match
MatchingAMIs == {[ImageId |-> "ami-1", Architecture |-> "x86_64"]}

MatchingInstanceTypes == {[InstanceType |-> "t-1", SupportedArchitectures |-> <<"x86_64">>]}

\* a provider call of Launch either succeeds or fails
LaunchOutcomes == {"ok", "err"}

\* provider calls by the kind of their effect
ApiClass(api) ==
    IF api \in {"DescribeImages", "DescribeInstanceTypes", "DescribeSubnets", "DescribeVpcs",
                "DescribeAvailabilityZones", "DescribeSecurityGroups",
                "DescribeLaunchTemplates", "DescribeFleets", "DescribeInstances"}
    THEN "read"
    ELSE IF api \in {"ModifySubnetAttribute", "AttachInternetGateway", "AssociateRouteTable"}
    THEN "modify"
    ELSE "create"

LaunchLog(api, res) == Append(lcalls, [api |-> api, res |-> res])

\* the cloud after a failed create, had Launch removed what it created before
RolledBack(c) ==
    [c EXCEPT !.VPCs = @ \ {"vpc-new"},
              !.InternetGateways = @ \ {"igw-new"},
              !.RouteTables = @ \ {"rtb-new"},
              !.SecurityGroups = @ \ {"sg-new"}]

\* the cloud after a failed create: Launch returns the error and deletes nothing
AfterFailure(c) == c

\* return launchPlan, err
LaunchReturn(err) ==
    /\ lpc' = "returned"
    /\ lret' = err

\* vm.New(awsCfg).Launch(ctx, launchOptions.DryRun, launchPlanInput)
LaunchCall ==
    /\ lpc = "idle"
    /\ launchPlan' = [launchPlan EXCEPT !.Status = EmptyLaunchStatus]
    /\ lpc' = "resolveAMIs"
    /\ UNCHANGED <<dryRun, frame, cloud, lsub, lcalls, lret>>
    /\ UNCHANGED notLaunchVars

\* amis, err := v.amiWatcher.Resolve(ctx, launchPlan.Spec.AMISelectors)
ResolveAMIs ==
    /\ lpc = "resolveAMIs"
    /\ \E res \in LaunchOutcomes :
        /\ lcalls' = LaunchLog("DescribeImages", res)
        /\ IF res = "ok"
           THEN /\ launchPlan' = [launchPlan EXCEPT !.Status.AMIs = SeqOf(MatchingAMIs)]
                /\ lpc' = "resolveInstanceTypes"
                /\ UNCHANGED lret
           ELSE /\ LaunchReturn("err")
                /\ UNCHANGED launchPlan
    /\ UNCHANGED <<dryRun, frame, cloud, lsub>>
    /\ UNCHANGED notLaunchVars

\* instanceTypes, err := v.instanceTypeWatcher.Resolve(ctx, launchPlan.Spec.InstanceTypeSelectors)
ResolveInstanceTypes ==
    /\ lpc = "resolveInstanceTypes"
    /\ \E res \in LaunchOutcomes :
        /\ lcalls' = LaunchLog("DescribeInstanceTypes", res)
        /\ IF res = "ok"
           THEN /\ launchPlan' = [launchPlan EXCEPT
                        !.Status.InstanceTypes = SeqOf(MatchingInstanceTypes)]
                /\ lpc' = "validate"
                /\ UNCHANGED lret
           ELSE /\ LaunchReturn("err")
                /\ UNCHANGED launchPlan
    /\ UNCHANGED <<dryRun, frame, cloud, lsub>>
    /\ UNCHANGED notLaunchVars

\* only the first check: security groups without subnets
OnlySecurityGroupsChecked(spec) ==
    Len(spec.SecurityGroupSelectors) # 0 /\ Len(spec.SubnetSelectors) = 0

\* the two checks on SecurityGroupSelectors and SubnetSelectors
IncompleteNetworkSelection(spec) ==
    \/ Len(spec.SecurityGroupSelectors) # 0 /\ Len(spec.SubnetSelectors) = 0
    \/ Len(spec.SubnetSelectors) # 0 /\ Len(spec.SecurityGroupSelectors) = 0

\* validation, then the branch on len(launchPlan.Spec.SubnetSelectors)
Validate ==
    /\ lpc = "validate"
    /\ IF IncompleteNetworkSelection(launchPlan.Spec)
       THEN LaunchReturn("err")
       ELSE /\ lpc' = IF Len(launchPlan.Spec.SubnetSelectors) # 0
                      THEN "resolveSubnets" ELSE "resolveVPCs"
            /\ UNCHANGED lret
    /\ UNCHANGED <<dryRun, launchPlan, frame, cloud, lsub, lcalls>>
    /\ UNCHANGED notLaunchVars

\* the security-group selectors are not resolved
SkipSecurityGroupSelectors(spec) == "createLaunchTemplate"

\* where Launch continues after the network block: if len(SecurityGroupSelectors) != 0
AfterNetwork(spec) ==
    IF Len(spec.SecurityGroupSelectors) # 0
    THEN "resolveSecurityGroupSelectors" ELSE "createLaunchTemplate"

\* subnetList, err = v.subnetWatcher.Resolve(ctx, launchPlan.Spec.SubnetSelectors)
ResolveSubnets ==
    /\ lpc = "resolveSubnets"
    /\ \E res \in LaunchOutcomes :
        /\ lcalls' = LaunchLog("DescribeSubnets", res)
        /\ IF res = "ok"
           THEN /\ frame' = [frame EXCEPT !.subnetList = SeqOf(SelectedSubnets)]
                /\ launchPlan' = [launchPlan EXCEPT !.Status.Subnets = SeqOf(SelectedSubnets)]
                /\ lpc' = AfterNetwork(launchPlan.Spec)
                /\ UNCHANGED lret
           ELSE /\ LaunchReturn("err")
                /\ UNCHANGED <<launchPlan, frame>>
    /\ UNCHANGED <<dryRun, cloud, lsub>>
    /\ UNCHANGED notLaunchVars

\* the VPC is created whatever the lookup found
AlwaysCreateVPC(existingVPCs) == TRUE

\* if len(existingVPCs) == 0
NoExistingVPC(existingVPCs) == Len(existingVPCs) = 0

\* existingVPCs, err := v.vpcWatcher.Resolve(ctx, {Tags: {NamespaceTagKey: namespace}})
ResolveVPCs ==
    /\ lpc = "resolveVPCs"
    /\ \E res \in LaunchOutcomes :
        /\ lcalls' = LaunchLog("DescribeVpcs", res)
        /\ IF res = "ok"
           THEN LET existingVPCs == SeqOf(cloud.VPCs) IN
                /\ IF NoExistingVPC(existingVPCs)
                   THEN /\ lpc' = "createVpc"
                        /\ frame' = [frame EXCEPT !.existingVPCs = existingVPCs]
                   ELSE /\ frame' = [frame EXCEPT !.existingVPCs = existingVPCs,
                                                  !.vpc = existingVPCs[1]]
                        /\ lpc' = "resolveVPCSubnets"
                /\ UNCHANGED lret
           ELSE /\ LaunchReturn("err")
                /\ UNCHANGED frame
    /\ UNCHANGED <<dryRun, launchPlan, cloud, lsub>>
    /\ UNCHANGED notLaunchVars

\* vpc, err = v.vpcWatcher.Create(ctx, namespace, name, "10.0.0.0/16")
CreateVpc ==
    /\ lpc = "createVpc"
    /\ \E res \in LaunchOutcomes :
        /\ lcalls' = LaunchLog("CreateVpc", res)
        /\ IF res = "ok"
           THEN /\ cloud' = [cloud EXCEPT !.VPCs = @ \cup {"vpc-new"}]
                /\ frame' = [frame EXCEPT !.vpc = "vpc-new"]
                /\ launchPlan' = [launchPlan EXCEPT !.Status.VPC = "vpc-new"]
                /\ lpc' = "resolveAvailabilityZones"
                /\ UNCHANGED lret
           ELSE /\ LaunchReturn("err")
                /\ cloud' = AfterFailure(cloud)
                /\ UNCHANGED <<launchPlan, frame>>
    /\ UNCHANGED <<dryRun, lsub>>
    /\ UNCHANGED notLaunchVars

\* variant: one spec for every zone returned, without the limit of three
SubnetSpecsEveryZone(zones) ==
    [i \in 1..zones |-> [AZ |-> i, CIDR |-> <<10, 0, i - 1, 0, 24>>, Public |-> TRUE]]

\* lo.Map(lo.Subset(availabilityZones, 0, 3), ...): one spec per zone, CIDR 10.0.i.0/24
SubnetSpecs(zones) ==
    [i \in 1..Min(3, zones) |-> [AZ |-> i, CIDR |-> <<10, 0, i - 1, 0, 24>>, Public |-> TRUE]]

\* availabilityZones, err := v.azWatcher.Resolve(ctx, nil); subnetWatcher.Create of no spec
ResolveAvailabilityZones ==
    /\ lpc = "resolveAvailabilityZones"
    /\ \E res \in LaunchOutcomes :
        /\ lcalls' = LaunchLog("DescribeAvailabilityZones", res)
        /\ IF res = "ok"
           THEN /\ frame' = [frame EXCEPT !.subnetSpecs = SubnetSpecs(cloud.Zones),
                                          !.subnetList = <<>>]
                /\ lpc' = IF SubnetSpecs(cloud.Zones) = <<>>
                          THEN "createInternetGateway" ELSE "createSubnet"
                /\ UNCHANGED lret
           ELSE /\ LaunchReturn("err")
                /\ UNCHANGED frame
    /\ lsub' = 1
    /\ UNCHANGED <<dryRun, launchPlan, cloud>>
    /\ UNCHANGED notLaunchVars

\* the id the cloud gives the subnet created for the i-th spec
NewSubnet(i) == <<"subnet-new", i>>

\* subnets.Watcher.Create, first loop: CreateSubnet for every spec
CreateSubnet ==
    /\ lpc = "createSubnet"
    /\ \E res \in LaunchOutcomes :
        /\ lcalls' = LaunchLog("CreateSubnet", res)
        /\ IF res = "ok"
           THEN /\ cloud' = [cloud EXCEPT !.Subnets = @ \cup {NewSubnet(lsub)}]
                /\ frame' = [frame EXCEPT !.subnetList = Append(@, NewSubnet(lsub))]
                /\ IF lsub < Len(frame.subnetSpecs)
                   THEN lsub' = lsub + 1 /\ UNCHANGED lpc
                   ELSE lsub' = 1 /\ lpc' = "modifySubnetAttribute"
                /\ UNCHANGED lret
           ELSE /\ LaunchReturn("err")
                /\ cloud' = AfterFailure(cloud)
                /\ UNCHANGED <<frame, lsub>>
    /\ UNCHANGED <<dryRun, launchPlan>>
    /\ UNCHANGED notLaunchVars

\* subnets.Watcher.Create, second loop: ModifySubnetAttribute of every public subnet;
\* then launchPlan.Status.Subnets = subnetList
ModifySubnetAttribute ==
    /\ lpc = "modifySubnetAttribute"
    /\ \E res \in LaunchOutcomes :
        /\ lcalls' = LaunchLog("ModifySubnetAttribute", res)
        /\ IF res = "ok"
           THEN /\ IF lsub < Len(frame.subnetList)
                   THEN lsub' = lsub + 1 /\ UNCHANGED <<lpc, launchPlan>>
                   ELSE /\ lsub' = 1
                        /\ lpc' = "createInternetGateway"
                        /\ launchPlan' = [launchPlan EXCEPT !.Status.Subnets = frame.subnetList]
                /\ UNCHANGED lret
           ELSE /\ LaunchReturn("err")
                /\ UNCHANGED <<launchPlan, lsub>>
    /\ UNCHANGED <<dryRun, frame, cloud>>
    /\ UNCHANGED notLaunchVars

\* igws.Watcher.Create: CreateInternetGateway
CreateInternetGateway ==
    /\ lpc = "createInternetGateway"
    /\ \E res \in LaunchOutcomes :
        /\ lcalls' = LaunchLog("CreateInternetGateway", res)
        /\ IF res = "ok"
           THEN /\ cloud' = [cloud EXCEPT !.InternetGateways = @ \cup {"igw-new"}]
                /\ frame' = [frame EXCEPT !.igw = "igw-new"]
                /\ lpc' = "attachInternetGateway"
                /\ UNCHANGED lret
           ELSE /\ LaunchReturn("err")
                /\ cloud' = AfterFailure(cloud)
                /\ UNCHANGED frame
    /\ UNCHANGED <<dryRun, launchPlan, lsub>>
    /\ UNCHANGED notLaunchVars

\* igws.Watcher.Create: AttachInternetGateway; then launchPlan.Status.InternetGateway = *igw
AttachInternetGateway ==
    /\ lpc = "attachInternetGateway"
    /\ \E res \in LaunchOutcomes :
        /\ lcalls' = LaunchLog("AttachInternetGateway", res)
        /\ IF res = "ok"
           THEN /\ launchPlan' = [launchPlan EXCEPT !.Status.InternetGateway = frame.igw]
                /\ lpc' = "createRouteTable"
                /\ UNCHANGED lret
           ELSE /\ LaunchReturn("err")
                /\ UNCHANGED launchPlan
    /\ UNCHANGED <<dryRun, frame, cloud, lsub>>
    /\ UNCHANGED notLaunchVars

\* routetables.Watcher.Create: "no subnets received", else CreateRouteTable for the
\* first public subnet
CreateRouteTable ==
    /\ lpc = "createRouteTable"
    /\ IF Len(frame.subnetList) = 0
       THEN /\ LaunchReturn("err")
            /\ UNCHANGED <<frame, cloud, lcalls>>
       ELSE \E res \in LaunchOutcomes :
            /\ lcalls' = LaunchLog("CreateRouteTable", res)
            /\ IF res = "ok"
               THEN /\ cloud' = [cloud EXCEPT !.RouteTables = @ \cup {"rtb-new"}]
                    /\ frame' = [frame EXCEPT !.publicRouteTable = "rtb-new"]
                    /\ lpc' = "createRoute"
                    /\ UNCHANGED lret
               ELSE /\ LaunchReturn("err")
                    /\ cloud' = AfterFailure(cloud)
                    /\ UNCHANGED frame
    /\ UNCHANGED <<dryRun, launchPlan, lsub>>
    /\ UNCHANGED notLaunchVars

\* routetables.Watcher.Create: CreateRoute 0.0.0.0/0 to the internet gateway
CreateRoute ==
    /\ lpc = "createRoute"
    /\ \E res \in LaunchOutcomes :
        /\ lcalls' = LaunchLog("CreateRoute", res)
        /\ IF res = "ok"
           THEN /\ lpc' = "associateRouteTable"
                /\ UNCHANGED lret
           ELSE LaunchReturn("err")
    /\ lsub' = 1
    /\ UNCHANGED <<dryRun, launchPlan, frame, cloud>>
    /\ UNCHANGED notLaunchVars

\* routetables.Watcher.Create: AssociateRouteTable for every public subnet; then
\* launchPlan.Status.RouteTables = append(launchPlan.Status.RouteTables, *publicRouteTable)
AssociateRouteTable ==
    /\ lpc = "associateRouteTable"
    /\ \E res \in LaunchOutcomes :
        /\ lcalls' = LaunchLog("AssociateRouteTable", res)
        /\ IF res = "ok"
           THEN /\ IF lsub < Len(frame.subnetList)
                   THEN lsub' = lsub + 1 /\ UNCHANGED <<lpc, launchPlan>>
                   ELSE /\ lsub' = 1
                        /\ lpc' = "resolveNamespaceSecurityGroups"
                        /\ launchPlan' = [launchPlan EXCEPT !.Status.RouteTables =
                                Append(@, frame.publicRouteTable)]
                /\ UNCHANGED lret
           ELSE /\ LaunchReturn("err")
                /\ UNCHANGED <<launchPlan, lsub>>
    /\ UNCHANGED <<dryRun, frame, cloud>>
    /\ UNCHANGED notLaunchVars

\* vpc = &existingVPCs[0]; subnetList, err = v.subnetWatcher.Resolve(ctx, {VPCID});
\* launchPlan.Status.VPC = *vpc
ResolveVPCSubnets ==
    /\ lpc = "resolveVPCSubnets"
    /\ \E res \in LaunchOutcomes :
        /\ lcalls' = LaunchLog("DescribeSubnets", res)
        /\ IF res = "ok"
           THEN /\ frame' = [frame EXCEPT !.subnetList = SeqOf(cloud.Subnets)]
                /\ launchPlan' = [launchPlan EXCEPT !.Status.VPC = frame.vpc]
                /\ lpc' = "resolveNamespaceSecurityGroups"
                /\ UNCHANGED lret
           ELSE /\ LaunchReturn("err")
                /\ UNCHANGED <<launchPlan, frame>>
    /\ UNCHANGED <<dryRun, cloud, lsub>>
    /\ UNCHANGED notLaunchVars

\* securityGroups, err = v.securityGroupWatcher.Resolve(ctx, {Tags: NamespacedTags});
\* the error is not tested; if len(securityGroups) == 0 { create } else Status.SecurityGroups
ResolveNamespaceSecurityGroups ==
    /\ lpc = "resolveNamespaceSecurityGroups"
    /\ \E res \in LaunchOutcomes :
        LET found == IF res = "ok" THEN SeqOf(cloud.SecurityGroups) ELSE <<>> IN
        /\ lcalls' = LaunchLog("DescribeSecurityGroups", res)
        /\ frame' = [frame EXCEPT !.securityGroups = found]
        /\ IF Len(found) = 0
           THEN /\ lpc' = "createSecurityGroup"
                /\ UNCHANGED launchPlan
           ELSE /\ launchPlan' = [launchPlan EXCEPT !.Status.SecurityGroups = found]
                /\ lpc' = AfterNetwork(launchPlan.Spec)
    /\ UNCHANGED <<dryRun, cloud, lsub, lret>>
    /\ UNCHANGED notLaunchVars

\* sgID, err := v.securityGroupWatcher.CreateSecurityGroup(ctx, namespace, name, opts)
CreateSecurityGroup ==
    /\ lpc = "createSecurityGroup"
    /\ \E res \in LaunchOutcomes :
        /\ lcalls' = LaunchLog("CreateSecurityGroup", res)
        /\ IF res = "ok"
           THEN /\ cloud' = [cloud EXCEPT !.SecurityGroups = @ \cup {"sg-new"}]
                /\ lpc' = "resolveCreatedSecurityGroup"
                /\ UNCHANGED lret
           ELSE /\ LaunchReturn("err")
                /\ cloud' = AfterFailure(cloud)
    /\ UNCHANGED <<dryRun, launchPlan, frame, lsub>>
    /\ UNCHANGED notLaunchVars

\* securityGroups, err = v.securityGroupWatcher.Resolve(ctx, {ID: sgID});
\* launchPlan.Status.SecurityGroups = securityGroups
ResolveCreatedSecurityGroup ==
    /\ lpc = "resolveCreatedSecurityGroup"
    /\ \E res \in LaunchOutcomes :
        /\ lcalls' = LaunchLog("DescribeSecurityGroups", res)
        /\ IF res = "ok"
           THEN /\ frame' = [frame EXCEPT !.securityGroups = <<"sg-new">>]
                /\ launchPlan' = [launchPlan EXCEPT !.Status.SecurityGroups = <<"sg-new">>]
                /\ lpc' = AfterNetwork(launchPlan.Spec)
                /\ UNCHANGED lret
           ELSE /\ LaunchReturn("err")
                /\ UNCHANGED <<launchPlan, frame>>
    /\ UNCHANGED <<dryRun, cloud, lsub>>
    /\ UNCHANGED notLaunchVars

\* securityGroups, err = v.securityGroupWatcher.Resolve(ctx, launchPlan.Spec.SecurityGroupSelectors)
ResolveSecurityGroupSelectors ==
    /\ lpc = "resolveSecurityGroupSelectors"
    /\ \E res \in LaunchOutcomes :
        /\ lcalls' = LaunchLog("DescribeSecurityGroups", res)
        /\ IF res = "ok"
           THEN /\ frame' = [frame EXCEPT !.securityGroups = SeqOf(SelectedSecurityGroups)]
                /\ launchPlan' = [launchPlan EXCEPT
                        !.Status.SecurityGroups = SeqOf(SelectedSecurityGroups)]
                /\ lpc' = "createLaunchTemplate"
                /\ UNCHANGED lret
           ELSE /\ LaunchReturn("err")
                /\ UNCHANGED <<launchPlan, frame>>
    /\ UNCHANGED <<dryRun, cloud, lsub>>
    /\ UNCHANGED notLaunchVars

----------------------------------------------------------------------------
(* Errors of CreateLaunchTemplate and ec2utils.IsAlreadyExistsErr *)

\* the launch template named namespace/name, when it exists
NamedLaunchTemplate == "lt-0"

\* errors.As(err, &ae): the error carries a smithy.APIError
IsAPIError(err) == err \in {"AlreadyExists", "ApiError"}

\* ae.ErrorCode()
ErrorCode(err) ==
    IF err = "AlreadyExists" THEN "InvalidLaunchTemplateName.AlreadyExistsException"
    ELSE "OtherCode"

\* the result of errors.As is discarded; ae stays nil for an error that carries no
\* APIError and ae.ErrorCode() then dereferences nil
IsAlreadyExistsErr(err) ==
    IF ~IsAPIError(err) THEN "panic"
    ELSE IF ErrorCode(err) \in {"InvalidLaunchTemplateName.AlreadyExistsException"}
    THEN "true" ELSE "false"

\* what the CreateLaunchTemplate call can return: a duplicate name is refused; any call
\* can fail with another API error or without reaching the API (cancellation, transport)
LaunchTemplateOutcomes ==
    (IF NamedLaunchTemplate \in cloud.LaunchTemplates \/ cloud.ForeignLaunchTemplates # {}
     THEN {"AlreadyExists"} ELSE {"ok"})
        \cup {"ApiError", "NonApiError"}

\* launchTemplateID, err := CreateLaunchTemplate(...);
\* if err != nil && !ec2utils.IsAlreadyExistsErr(err) { return launchPlan, err }
CreateLaunchTemplate ==
    /\ lpc = "createLaunchTemplate"
    /\ \E res \in LaunchTemplateOutcomes :
        /\ lcalls' = LaunchLog("CreateLaunchTemplate", res)
        /\ IF res = "ok"
           THEN /\ cloud' = [cloud EXCEPT !.LaunchTemplates = @ \cup {NamedLaunchTemplate}]
                /\ frame' = [frame EXCEPT
                        !.templateSecurityGroups = launchPlan.Status.SecurityGroups,
                        !.launchTemplateID = NamedLaunchTemplate]
                /\ lpc' = "resolveLaunchTemplates"
                /\ UNCHANGED lret
           ELSE /\ frame' = [frame EXCEPT
                        !.templateSecurityGroups = launchPlan.Status.SecurityGroups]
                /\ UNCHANGED cloud
                /\ CASE IsAlreadyExistsErr(res) = "true" ->
                            /\ lpc' = "resolveLaunchTemplates"
                            /\ UNCHANGED lret
                     [] IsAlreadyExistsErr(res) = "false" -> LaunchReturn("err")
                     [] IsAlreadyExistsErr(res) = "panic" ->
                            /\ lpc' = "panicked"
                            /\ lret' = "panic"
    /\ UNCHANGED <<dryRun, launchPlan, lsub>>
    /\ UNCHANGED notLaunchVars

\* some launch template was resolved
SomeLaunchTemplate(found) == Cardinality(found) >= 1

\* neither len(launchTemplates) > 1 nor len(launchTemplates) == 0
SingleLaunchTemplate(found) == ~(Cardinality(found) > 1) /\ ~(Cardinality(found) = 0)

\* launchTemplates, err := v.launchTemplateWatcher.Resolve(ctx, {Tags: NamespacedTags});
\* more than one or none is an error
ResolveLaunchTemplates ==
    /\ lpc = "resolveLaunchTemplates"
    /\ \E res \in LaunchOutcomes :
        /\ lcalls' = LaunchLog("DescribeLaunchTemplates", res)
        /\ IF res = "ok" /\ SingleLaunchTemplate(cloud.LaunchTemplates)
           THEN /\ launchPlan' = [launchPlan EXCEPT
                        !.Status.LaunchTemplate = SeqOf(cloud.LaunchTemplates)[1]]
                /\ lpc' = "createFleet"
                /\ UNCHANGED lret
           ELSE /\ LaunchReturn("err")
                /\ UNCHANGED launchPlan
    /\ UNCHANGED <<dryRun, frame, cloud, lsub>>
    /\ UNCHANGED notLaunchVars

----------------------------------------------------------------------------
(* fleets.Watcher.launchTemplateConfigs *)

\* lo.Find(createOpts.AMIs, architecture = arch): the first AMI of the architecture, if any
FindAMI(amis, arch) ==
    LET at == {i \in 1..Len(amis) : amis[i].Architecture = arch} IN
    IF at = {} THEN <<>> ELSE <<amis[CHOOSE i \in at : \A j \in at : i <= j]>>

\* amiArchs: the arm64 AMI found, then the x86_64 AMI found
AmiArchs(amis) == FindAMI(amis, "arm64") \o FindAMI(amis, "x86_64")

\* every instance type, whatever it supports
AllInstanceTypes(instanceTypes, ami) == instanceTypes

\* supportedInstanceTypesForArch: lo.Filter on SupportedArchitectures containing the
\* architecture of the AMI
SupportedInstanceTypesForArch(instanceTypes, ami) ==
    SelectSeq(instanceTypes,
              LAMBDA t : \E n \in 1..Len(t.SupportedArchitectures) :
                            t.SupportedArchitectures[n] = ami.Architecture)

\* one FleetLaunchTemplateConfigRequest: the launch template and a single override
ConfigRequest(launchTemplate, ami, instanceType, subnet) ==
    [LaunchTemplateId |-> launchTemplate, Version |-> "$Latest",
     ImageId |-> ami.ImageId, SubnetId |-> subnet, InstanceType |-> instanceType.InstanceType]

RECURSIVE Flatten(_)
\* the appends of a loop, one list per iteration, in order
Flatten(lists) == IF lists = <<>> THEN <<>> ELSE Head(lists) \o Flatten(Tail(lists))

\* for _, ami := range amiArchs { for _, instanceType := range supported {
\*     for _, subnet := range createOpts.Subnets { append } } }
LaunchTemplateConfigs(launchTemplate, opts) ==
    LET amiArchs == AmiArchs(opts.AMIs) IN
    Flatten([k \in 1..Len(amiArchs) |->
        LET supported == SupportedInstanceTypesForArch(opts.InstanceTypes, amiArchs[k]) IN
        Flatten([i \in 1..Len(supported) |->
            [j \in 1..Len(opts.Subnets) |->
                ConfigRequest(launchTemplate, amiArchs[k], supported[i], opts.Subnets[j])]])])

\* fleets.CreateFleetOptions{LaunchTemplate: Status.LaunchTemplate, InstanceTypes:
\* Status.InstanceTypes, Subnets: Status.Subnets, AMIs: Status.AMIs, ...}
FleetOptions(status) ==
    [LaunchTemplate |-> status.LaunchTemplate, AMIs |-> status.AMIs,
     InstanceTypes |-> status.InstanceTypes, Subnets |-> status.Subnets]

\* fleetID, err := v.fleetWatcher.CreateFleet(ctx, fleets.CreateFleetOptions{...})
CreateFleet ==
    /\ lpc = "createFleet"
    /\ \E res \in LaunchOutcomes :
        LET opts == FleetOptions(launchPlan.Status)
            fleetRequest == LaunchTemplateConfigs(opts.LaunchTemplate, opts) IN
        /\ lcalls' = LaunchLog("CreateFleet", res)
        /\ IF res = "ok"
           THEN /\ cloud' = [cloud EXCEPT !.Fleets = @ \cup {"fleet-new"},
                                          !.Instances = @ \cup {"i-new"}]
                /\ frame' = [frame EXCEPT !.launchTemplateConfigs = fleetRequest,
                                          !.fleetID = "fleet-new"]
                /\ lpc' = "resolveFleets"
                /\ UNCHANGED lret
           ELSE /\ LaunchReturn("err")
                /\ frame' = [frame EXCEPT !.launchTemplateConfigs = fleetRequest]
                /\ cloud' = AfterFailure(cloud)
    /\ UNCHANGED <<dryRun, launchPlan, lsub>>
    /\ UNCHANGED notLaunchVars

\* fleets, err := v.fleetWatcher.Resolve(ctx, {ID: fleetID}); none found is an error
ResolveFleets ==
    /\ lpc = "resolveFleets"
    /\ \E res \in LaunchOutcomes :
        /\ lcalls' = LaunchLog("DescribeFleets", res)
        /\ IF res = "ok" /\ frame.fleetID \in cloud.Fleets
           THEN /\ lpc' = "resolveInstances"
                /\ UNCHANGED lret
           ELSE LaunchReturn("err")
    /\ UNCHANGED <<dryRun, launchPlan, frame, cloud, lsub>>
    /\ UNCHANGED notLaunchVars

\* launchedInstances, err := v.instanceWatcher.Resolve(ctx, instanceIDSelectors);
\* if err != nil { return launchPlan, nil }; Status.Instances = launchedInstances; return nil
ResolveInstances ==
    /\ lpc = "resolveInstances"
    /\ \E res \in LaunchOutcomes :
        /\ lcalls' = LaunchLog("DescribeInstances", res)
        /\ IF res = "ok"
           THEN launchPlan' = [launchPlan EXCEPT !.Status.Instances = SeqOf(cloud.Instances)]
           ELSE UNCHANGED launchPlan
        /\ LaunchReturn("nil")
    /\ UNCHANGED <<dryRun, frame, cloud, lsub>>
    /\ UNCHANGED notLaunchVars

----------------------------------------------------------------------------
(* Initial states of a Launch: the request and what the namespace already holds *)

\* no Delete takes place
DeleteIdle ==
    /\ deletionPlan = [Spec |-> [k \in KindSet |-> <<>>], Status |-> [k \in KindSet |-> NilMap]]
    /\ described = [Attachments |-> [id \in Ids["InternetGateways"] |-> <<>>],
                    Routes |-> [id \in Ids["RouteTables"] |-> <<>>],
                    Associations |-> [id \in Ids["RouteTables"] |-> <<>>]]
    /\ exists = [k \in KindSet |-> {}]
    /\ instanceState = [id \in Ids["Instances"] |-> "none"]
    /\ attachments = [id \in Ids["InternetGateways"] |-> {}]
    /\ routes = [id \in Ids["RouteTables"] |-> {}]
    /\ associations = [id \in Ids["RouteTables"] |-> {}]
    /\ pc = "off"
    /\ kind = 1
    /\ idx = 1
    /\ sub = 1
    /\ inv = 0
    /\ entry = deletionPlan.Status
    /\ reliable = FALSE
    /\ calls = <<>>
    /\ results = <<>>

InitLaunch ==
    /\ dryRun \in BOOLEAN
    /\ \E sn, sg \in {<<>>, <<"selector">>} :
        launchPlan = [Spec |-> [SubnetSelectors |-> sn, SecurityGroupSelectors |-> sg],
                      Status |-> EmptyLaunchStatus]
    /\ frame = EmptyFrame
    /\ \E vs \in {{}, {"vpc-0"}}, gs \in {{}, {"sg-0"}},
          ts \in {{}, {NamedLaunchTemplate}, {NamedLaunchTemplate, "lt-1"}},
          fs \in {{}, {"lt-x"}}, z \in 0..MaxZones :
        \* a launch template name is held by one template at most
        /\ NamedLaunchTemplate \in ts => fs = {}
        /\ cloud = [EmptyCloud EXCEPT !.VPCs = vs,
                                   !.Subnets = IF vs = {} THEN {} ELSE {"subnet-0"},
                                   !.SecurityGroups = gs,
                                   !.LaunchTemplates = ts,
                                   !.ForeignLaunchTemplates = fs,
                                   !.Zones = z]
    /\ lpc = "idle"
    /\ lsub = 1
    /\ lcalls = <<>>
    /\ lret = "none"
    /\ DeleteIdle
    /\ FleetIdle
    /\ DiscoveryIdle
    /\ ConcurrentIdle
    /\ AmiIdle
    /\ ResolveIdle
    /\ ParseIdle
    /\ CliIdle

NextLaunch ==
    \/ LaunchCall
    \/ ResolveAMIs
    \/ ResolveInstanceTypes
    \/ Validate
    \/ ResolveSubnets
    \/ ResolveVPCs
    \/ CreateVpc
    \/ ResolveAvailabilityZones
    \/ CreateSubnet
    \/ ModifySubnetAttribute
    \/ CreateInternetGateway
    \/ AttachInternetGateway
    \/ CreateRouteTable
    \/ CreateRoute
    \/ AssociateRouteTable
    \/ ResolveVPCSubnets
    \/ ResolveNamespaceSecurityGroups
    \/ CreateSecurityGroup
    \/ ResolveCreatedSecurityGroup
    \/ ResolveSecurityGroupSelectors
    \/ CreateLaunchTemplate
    \/ ResolveLaunchTemplates
    \/ CreateFleet
    \/ ResolveFleets
    \/ ResolveInstances

SpecLaunch == InitLaunch /\ [][NextLaunch]_vars

----------------------------------------------------------------------------
(* Properties of Launch *)

\* the request supplies exactly one of the two selector lists
ExactlyOneSelectorList ==
    (launchPlan.Spec.SubnetSelectors = <<>>) # (launchPlan.Spec.SecurityGroupSelectors = <<>>)

\* the positions of Launch up to and including the validation
BeforeNetwork == {"idle", "resolveAMIs", "resolveInstanceTypes", "validate"}

\* C7: a Launch whose request supplies exactly one of the subnet selectors and the
\* security-group selectors never gets past the validation, returns an error, and has issued
\* only read-only calls (the AMI and instance-type resolutions).
C7_IncompleteSelectionRejected ==
    ExactlyOneSelectorList =>
        /\ lpc \in BeforeNetwork \cup {"returned"}
        /\ lpc = "returned" => lret = "err"
        /\ \A i \in 1..Len(lcalls) :
            lcalls[i].api \in {"DescribeImages", "DescribeInstanceTypes"}

\* a request with subnet selectors only was rejected by the validation, after both
\* resolutions succeeded
C7_Witness ==
    /\ launchPlan.Spec.SubnetSelectors # <<>>
    /\ launchPlan.Spec.SecurityGroupSelectors = <<>>
    /\ lpc = "returned"
    /\ lret = "err"
    /\ Len(lcalls) = 2
    /\ \A i \in 1..Len(lcalls) : lcalls[i].res = "ok"

\* C8: a Launch invoked with dryRun = true issues no create call.
C8_DryRunLaunchesNothing ==
    dryRun => \A i \in 1..Len(lcalls) : ApiClass(lcalls[i].api) # "create"

\* C9: a failed provider call of Launch, other than CreateLaunchTemplate, is the last call
\* Launch issues, and Launch returns a non-nil error.
C9_FailFast ==
    \A i \in 1..Len(lcalls) :
        (lcalls[i].api # "CreateLaunchTemplate" /\ lcalls[i].res # "ok") =>
            /\ i = Len(lcalls)
            /\ lpc = "returned"
            /\ lret = "err"

\* C10: after CreateLaunchTemplate failed with already-exists Launch goes on to resolve the
\* template; after it failed with any other error, API or not, Launch has returned the error
\* as an error value and issues no further call, so no CreateFleet.
C10_LaunchTemplateCreateErrors ==
    \A i \in 1..Len(lcalls) :
        lcalls[i].api = "CreateLaunchTemplate" =>
            /\ lcalls[i].res = "AlreadyExists" =>
                /\ i = Len(lcalls) => lpc = "resolveLaunchTemplates"
                /\ i < Len(lcalls) => lcalls[i + 1].api = "DescribeLaunchTemplates"
            /\ lcalls[i].res \in {"ApiError", "NonApiError"} =>
                /\ i = Len(lcalls)
                /\ lpc = "returned"
                /\ lret = "err"

\* the calls of Launch that resolved the launch templates successfully
ResolvedLaunchTemplates ==
    {i \in 1..Len(lcalls) : lcalls[i] = [api |-> "DescribeLaunchTemplates", res |-> "ok"]}

\* C11: CreateFleet is issued only right after a resolution of the launch templates by tag
\* that yielded exactly one; when the resolution yielded none or more than one, Launch has
\* returned an error and issued no CreateFleet.
C11_FleetNeedsOneLaunchTemplate ==
    /\ \A i \in 1..Len(lcalls) :
        lcalls[i].api = "CreateFleet" =>
            /\ i - 1 \in ResolvedLaunchTemplates
            /\ Cardinality(cloud.LaunchTemplates) = 1
    /\ (ResolvedLaunchTemplates # {} /\ Cardinality(cloud.LaunchTemplates) # 1) =>
            /\ lpc = "returned"
            /\ lret = "err"
            /\ \A i \in 1..Len(lcalls) : lcalls[i].api # "CreateFleet"

\* the resolution yielded two launch templates and Launch returned the error
C11_Witness ==
    /\ ResolvedLaunchTemplates # {}
    /\ Cardinality(cloud.LaunchTemplates) = 2
    /\ lpc = "returned"
    /\ lret = "err"

\* the resolution yielded no launch template: the name is held by a template without the tags
C11_WitnessNone ==
    /\ ResolvedLaunchTemplates # {}
    /\ cloud.LaunchTemplates = {}
    /\ lpc = "returned"

\* the calls that create the network of the bootstrap path
NetworkCreates == {"CreateVpc", "CreateSubnet", "CreateInternetGateway", "CreateRouteTable"}

\* the lookup of the VPCs of the namespace succeeded before call i
VPCsLookedUpBefore(i) ==
    \E j \in 1..(i - 1) : lcalls[j] = [api |-> "DescribeVpcs", res |-> "ok"]

\* C12: on the bootstrap path, when the lookup of the namespace's VPCs returned at least one
\* VPC, Launch issues no create call for a VPC, subnet, internet gateway or route table; such
\* a call is issued only after the lookup succeeded and returned no VPC.
C12_NetworkReuse ==
    \A i \in 1..Len(lcalls) :
        lcalls[i].api \in NetworkCreates =>
            /\ launchPlan.Spec.SubnetSelectors = <<>>
            /\ VPCsLookedUpBefore(i)
            /\ frame.existingVPCs = <<>>

\* a Launch that found a VPC of the namespace ran to its end reusing it
C12_Witness ==
    /\ launchPlan.Spec.SubnetSelectors = <<>>
    /\ frame.existingVPCs # <<>>
    /\ \E i \in 1..Len(lcalls) : lcalls[i] = [api |-> "CreateFleet", res |-> "ok"]
    /\ lpc = "returned"
    /\ lret = "nil"

\* Launch issued the CreateFleet call
FleetRequested == \E i \in 1..Len(lcalls) : lcalls[i].api = "CreateFleet"

\* the subnets the overrides of the fleet request name
RequestedSubnets == {frame.launchTemplateConfigs[n].SubnetId :
                        n \in 1..Len(frame.launchTemplateConfigs)}

\* C13: when the bootstrap path reused an existing VPC and the fleet was requested, the subnets
\* resolved from that VPC are recorded in Status.Subnets and are exactly the subnets of the
\* overrides of the fleet request.
C13_ReusedSubnetsUsed ==
    (launchPlan.Spec.SubnetSelectors = <<>> /\ frame.existingVPCs # <<>> /\ FleetRequested) =>
        /\ launchPlan.Status.Subnets = frame.subnetList
        /\ RequestedSubnets = Range(frame.subnetList)

\* the security groups of the namespace that existed before Launch
ExistingSecurityGroups == cloud.SecurityGroups \ {"sg-new"}

\* C14: CreateSecurityGroup is issued only right after the lookup of the security groups by
\* the namespace/name tags succeeded and returned none; after a lookup that failed or returned
\* a group no security group is created.
C14_LookupBeforeCreate ==
    \A i \in 1..Len(lcalls) :
        lcalls[i].api = "CreateSecurityGroup" =>
            /\ i > 1
            /\ lcalls[i - 1] = [api |-> "DescribeSecurityGroups", res |-> "ok"]
            /\ ExistingSecurityGroups = {}

\* C15: when subnet selectors and security-group selectors are both supplied, Launch creates
\* no VPC, subnet, internet gateway, route table or security group, and the security groups
\* passed to CreateLaunchTemplate and Status.SecurityGroups are the groups resolved from the
\* security-group selectors.
C15_ExplicitSelectionOverrides ==
    (launchPlan.Spec.SubnetSelectors # <<>> /\ launchPlan.Spec.SecurityGroupSelectors # <<>>) =>
        /\ \A i \in 1..Len(lcalls) :
            /\ lcalls[i].api \notin NetworkCreates \cup {"CreateSecurityGroup"}
            /\ lcalls[i].api = "CreateLaunchTemplate" =>
                /\ Range(frame.templateSecurityGroups) = SelectedSecurityGroups
                /\ Range(launchPlan.Status.SecurityGroups) = SelectedSecurityGroups

\* a Launch with both selector lists ran to its end
C15_Witness ==
    /\ launchPlan.Spec.SubnetSelectors # <<>>
    /\ launchPlan.Spec.SecurityGroupSelectors # <<>>
    /\ \E i \in 1..Len(lcalls) : lcalls[i] = [api |-> "CreateLaunchTemplate", res |-> "ok"]
    /\ lpc = "returned"
    /\ lret = "nil"

----------------------------------------------------------------------------
(* launchTemplateConfigs on its own: the inputs are drawn from bounded sets *)

\* lists without repetition of at most n elements of S
RECURSIVE ListsUpTo(_, _)
ListsUpTo(S, n) ==
    IF n = 0 THEN {<<>>}
    ELSE LET shorter == ListsUpTo(S, n - 1) IN
         shorter \cup UNION {{Append(l, x) : x \in S \ Range(l)} : l \in shorter}

\* resolved AMIs: two of arm64, one of x86_64, one of an architecture that is neither
AMIPool ==
    {[ImageId |-> "ami-a1", Architecture |-> "arm64"],
     [ImageId |-> "ami-a2", Architecture |-> "arm64"],
     [ImageId |-> "ami-x1", Architecture |-> "x86_64"],
     [ImageId |-> "ami-m1", Architecture |-> "x86_64_mac"]}

\* resolved instance types: two of arm64, one of x86_64, one that supports i386 and x86_64
InstanceTypePool ==
    {[InstanceType |-> "t-a1", SupportedArchitectures |-> <<"arm64">>],
     [InstanceType |-> "t-a2", SupportedArchitectures |-> <<"arm64">>],
     [InstanceType |-> "t-x1", SupportedArchitectures |-> <<"x86_64">>],
     [InstanceType |-> "t-ix", SupportedArchitectures |-> <<"i386", "x86_64">>]}

SubnetPool == {"subnet-a", "subnet-b"}

InitFleetConfigs ==
    /\ \E amis \in ListsUpTo(AMIPool, MaxAMIs),
          types \in ListsUpTo(InstanceTypePool, MaxInstanceTypes),
          subnetIds \in ListsUpTo(SubnetPool, MaxSubnets) :
        createOpts = [LaunchTemplate |-> NamedLaunchTemplate, AMIs |-> amis,
                      InstanceTypes |-> types, Subnets |-> subnetIds]
    /\ configs = <<>>
    /\ fpc = "called"
    /\ DeleteIdle
    /\ LaunchIdle
    /\ DiscoveryIdle
    /\ ConcurrentIdle
    /\ AmiIdle
    /\ ResolveIdle
    /\ ParseIdle
    /\ CliIdle

\* LaunchTemplateConfigs: w.launchTemplateConfigs(createOpts.LaunchTemplate, createOpts)
BuildConfigs ==
    /\ fpc = "called"
    /\ configs' = LaunchTemplateConfigs(createOpts.LaunchTemplate, createOpts)
    /\ fpc' = "returned"
    /\ UNCHANGED createOpts
    /\ UNCHANGED notFleetVars

NextFleetConfigs == BuildConfigs

SpecFleetConfigs == InitFleetConfigs /\ [][NextFleetConfigs]_vars

\* the instance type supports the architecture
Supports(instanceType, arch) ==
    \E n \in 1..Len(instanceType.SupportedArchitectures) :
        instanceType.SupportedArchitectures[n] = arch

\* the number of entries an architecture accounts for: none without a resolved AMI of it,
\* else (instance types supporting it) x (subnets)
EntriesOf(arch) ==
    IF \E n \in 1..Len(createOpts.AMIs) : createOpts.AMIs[n].Architecture = arch
    THEN Cardinality({t \in Range(createOpts.InstanceTypes) : Supports(t, arch)})
            * Len(createOpts.Subnets)
    ELSE 0

\* no two resolved AMIs have the same architecture
OneAMIPerArchitecture ==
    \A a, b \in 1..Len(createOpts.AMIs) :
        a # b => createOpts.AMIs[a].Architecture # createOpts.AMIs[b].Architecture

\* C16: with one resolved AMI per architecture, launchTemplateConfigs returns as many entries
\* as the sum, over arm64 and x86_64 when an AMI of it was resolved, of (instance types that
\* support the architecture) x (subnets), and every entry references the launch template.
C16_OverrideCount ==
    (fpc = "returned" /\ OneAMIPerArchitecture) =>
        /\ Len(configs) = EntriesOf("arm64") + EntriesOf("x86_64")
        /\ \A n \in 1..Len(configs) :
            /\ configs[n].LaunchTemplateId = createOpts.LaunchTemplate
            /\ configs[n].Version = "$Latest"

\* 2 AMIs (arm64, x86_64), 3 instance types (2 arm64, 1 x86_64) and 2 subnets gave 6 entries
C16_Witness ==
    /\ fpc = "returned"
    /\ {createOpts.AMIs[n].Architecture : n \in 1..Len(createOpts.AMIs)} = {"arm64", "x86_64"}
    /\ Len(createOpts.AMIs) = 2
    /\ Range(createOpts.InstanceTypes) =
            {t \in InstanceTypePool : t.InstanceType \in {"t-a1", "t-a2", "t-x1"}}
    /\ Len(createOpts.Subnets) = 2
    /\ Len(configs) = 6

\* a resolved AMI, a resolved instance type that supports its architecture, a resolved subnet
CompatibleTriples ==
    {tr \in Range(createOpts.AMIs) \X Range(createOpts.InstanceTypes)
                \X Range(createOpts.Subnets) : Supports(tr[2], tr[1].Architecture)}

\* C17: the (AMI, instance type, subnet) triples of the returned overrides are exactly the
\* triples of a resolved AMI, a resolved instance type that supports the architecture of the
\* AMI, and a resolved subnet.
C17_FullCrossProduct ==
    fpc = "returned" =>
        {<<configs[n].ImageId, configs[n].InstanceType, configs[n].SubnetId>> :
            n \in 1..Len(configs)}
        = {<<tr[1].ImageId, tr[2].InstanceType, tr[3]>> : tr \in CompatibleTriples}

----------------------------------------------------------------------------
(* No rollback *)

\* the provider calls that delete, detach or terminate
RemovingCalls ==
    {"TerminateInstances", "DeleteFleets", "DeleteLaunchTemplate", "DeleteSecurityGroup",
     "DetachInternetGateway", "DeleteInternetGateway", "DeleteRoute",
     "DisassociateRouteTable", "DeleteRouteTable", "DeleteSubnet", "DeleteVpc"}

\* call i of Launch succeeded and was a call of the api
SucceededCall(i, api) == lcalls[i] = [api |-> api, res |-> "ok"]

\* the number of successful calls of the api among the calls of Launch
SuccessCount(api) == Cardinality({i \in 1..Len(lcalls) : SucceededCall(i, api)})

\* the resource every successful create call of Launch created still exists
CreatedStillExists ==
    /\ SuccessCount("CreateVpc") > 0 => "vpc-new" \in cloud.VPCs
    /\ \A k \in 1..SuccessCount("CreateSubnet") : NewSubnet(k) \in cloud.Subnets
    /\ SuccessCount("CreateInternetGateway") > 0 => "igw-new" \in cloud.InternetGateways
    /\ SuccessCount("CreateRouteTable") > 0 => "rtb-new" \in cloud.RouteTables
    /\ SuccessCount("CreateSecurityGroup") > 0 => "sg-new" \in cloud.SecurityGroups
    /\ SuccessCount("CreateLaunchTemplate") > 0 => NamedLaunchTemplate \in cloud.LaunchTemplates
    /\ SuccessCount("CreateFleet") > 0 => "fleet-new" \in cloud.Fleets

\* C18: Launch never issues a delete, detach or terminate call, and every resource a create
\* call of Launch created still exists, at every step and when Launch has returned, with or
\* without an error.
C18_NoRollback ==
    /\ \A i \in 1..Len(lcalls) : lcalls[i].api \notin RemovingCalls
    /\ CreatedStillExists

\* Launch created the VPC and a subnet, then failed at a later create and returned the error
C18_Witness ==
    /\ lpc = "returned"
    /\ lret = "err"
    /\ SuccessCount("CreateVpc") > 0
    /\ SuccessCount("CreateSubnet") > 0
    /\ lcalls[Len(lcalls)] = [api |-> "CreateInternetGateway", res |-> "err"]

----------------------------------------------------------------------------
(* Tags: tagutils.NamespacedTags, selectors.TagsToEC2Filters *)

\* a string as the list of its pieces: "" is the empty list, so that putting pieces together
\* is concatenation and equal lists are equal strings
Str(x) == IF x = "" THEN <<>> ELSE <<x>>

NamespaceTagKey == "nimbus-Namespace"

NameTagKey == "nimbus-Name"

CreatedByTagKey == "nimbus-CreatedBy"

SystemPrefixKey == "nimbus"

\* tagutils.NamespacedTags(namespace, name): a map, here the set of its key/value pairs
NamespacedTags(namespace, name) ==
    {<<NamespaceTagKey, Str(namespace)>>, <<CreatedByTagKey, Str(SystemPrefixKey)>>}
    \cup (IF name # ""
          THEN {<<"Name", Str(namespace) \o <<"/">> \o Str(name)>>, <<NameTagKey, Str(name)>>}
          ELSE {})

\* tags[key], the empty string when the map has no such key
TagValue(tags, key) ==
    IF \E kv \in tags : kv[1] = key THEN (CHOOSE kv \in tags : kv[1] = key)[2] ELSE <<>>

\* publicRawTags := NamespacedTags(namespace, name);
\* publicRawTags["Name"] = fmt.Sprintf("%s-PUBLIC", publicRawTags["Name"])
PublicRouteTableTags(namespace, name) ==
    LET raw == NamespacedTags(namespace, name) IN
    {kv \in raw : kv[1] # "Name"} \cup {<<"Name", TagValue(raw, "Name") \o <<"-PUBLIC">>>>}

\* one filter of TagsToEC2Filters against the tags of a resource: tag-key for the values
\* "*" and "", tag:<key> = value otherwise
FilterMatches(kv, tags) ==
    IF kv[2] = <<"*">> \/ kv[2] = <<>>
    THEN \E have \in tags : have[1] = kv[1]
    ELSE kv \in tags

\* the filters of one selector are AND'd
TagsMatch(selectorTags, tags) == \A kv \in selectorTags : FilterMatches(kv, tags)

----------------------------------------------------------------------------
(* AWSVM.DeletionPlan, after a Launch of the same namespace and name or on its own *)

Namespaces == {"", "ns1"}

Names == {"", "vm1"}

\* the describe call behind the Resolve of each kind
DescribeCall ==
    [Instances |-> "DescribeInstances", LaunchTemplates |-> "DescribeLaunchTemplates",
     SecurityGroups |-> "DescribeSecurityGroups",
     InternetGateways |-> "DescribeInternetGateways", RouteTables |-> "DescribeRouteTables",
     Subnets |-> "DescribeSubnets", VPCs |-> "DescribeVpcs"]

\* the tags a resource that Launch did not create may carry: those of the same namespace and
\* name, of another namespace, of another name, of the namespace without a name, the same
\* without the created-by tag, and none
OtherTags ==
    {NamespacedTags("ns1", "vm1"), NamespacedTags("ns2", "vm1"), NamespacedTags("ns1", "vm2"),
     NamespacedTags("ns1", ""),
     {kv \in NamespacedTags("ns1", "vm1") : kv[1] # CreatedByTagKey},
     {}}

Resource(k, id, tags, state) == [kind |-> k, id |-> id, tags |-> tags, state |-> state]

\* what the n-th resource that Launch did not create can be
OtherResources(n) ==
    {Resource(k, <<"other", n>>, t, "running") : k \in KindSet, t \in OtherTags}
    \cup {Resource("Instances", <<"other", n>>, NamespacedTags("ns1", "vm1"), "terminated")}

RECURSIVE OtherWorlds(_)
\* the sets of at most n such resources
OtherWorlds(n) ==
    IF n = 0 THEN {{}}
    ELSE LET fewer == OtherWorlds(n - 1) IN
         fewer \cup {w \cup {r} : w \in {v \in fewer : Cardinality(v) = n - 1},
                                  r \in OtherResources(n)}

\* what a successful Launch(namespace, name) on the bootstrap path with the given number of
\* subnet specs leaves in the account: every Create passes EC2NamespacedTags(namespace, name)
\* in its TagSpecifications, except the public route table
LaunchedResources(namespace, name, specs) ==
    LET tags == NamespacedTags(namespace, name) IN
    {Resource("VPCs", <<"vpc-new", 1>>, tags, "available"),
     Resource("InternetGateways", <<"igw-new", 1>>, tags, "available"),
     Resource("RouteTables", <<"rtb-new", 1>>, PublicRouteTableTags(namespace, name),
              "available"),
     Resource("SecurityGroups", <<"sg-new", 1>>, tags, "available"),
     Resource("LaunchTemplates", <<NamedLaunchTemplate, 1>>, tags, "available"),
     Resource("Instances", <<"i-new", 1>>, tags, "running")}
    \cup {Resource("Subnets", NewSubnet(i), tags, "available") : i \in 1..specs}

InitDiscovery ==
    /\ request \in [namespace : Namespaces, name : Names]
    /\ world \in OtherWorlds(MaxOtherResources)
    /\ dplan = [k \in KindSet |-> <<>>]
    /\ dpc = "idle"
    /\ dkind = 1
    /\ dcalls = <<>>
    /\ dret = "none"
    /\ DeleteIdle
    /\ LaunchIdle
    /\ FleetIdle
    /\ ConcurrentIdle
    /\ AmiIdle
    /\ ResolveIdle
    /\ ParseIdle
    /\ CliIdle

\* a Launch(namespace, name) of the bootstrap path in a namespace without VPC runs to its
\* end: one subnet per availability zone, three at most
LaunchSucceeds ==
    /\ dpc = "idle"
    /\ \A r \in world : r.id[1] = "other"
    /\ \E specs \in 1..3 :
        world' = world \cup LaunchedResources(request.namespace, request.name, specs)
    /\ UNCHANGED <<request, dplan, dpc, dkind, dcalls, dret>>
    /\ UNCHANGED notDiscoveryVars

\* vmClient.DeletionPlan(ctx, globalOpts.Namespace, deleteOptions.Name)
DeletionPlanCall ==
    /\ dpc = "idle"
    /\ dpc' = "resolve"
    /\ dkind' = 1
    /\ dplan' = [k \in KindSet |-> <<>>]
    /\ UNCHANGED <<world, request, dcalls, dret>>
    /\ UNCHANGED notDiscoveryVars

\* what the Resolve of a kind returns for the selector {Tags: NamespacedTags(namespace, name)},
\* for instances {Tags: ..., State: "running"}
Resolved(k) ==
    {r \in world :
        /\ r.kind = k
        /\ TagsMatch(NamespacedTags(request.namespace, request.name), r.tags)
        /\ k = "Instances" => r.state = "running"}

\* one block of DeletionPlan: x, err := v.<kind>Watcher.Resolve(...);
\* if err != nil { return deletionPlan, err }; deletionPlan.Spec.<Kind> = x
PlanStep(k) ==
    /\ dpc = "resolve"
    /\ Kinds[dkind] = k
    /\ \E res \in {"ok", "err"} :
        /\ dcalls' = Append(dcalls, [api |-> DescribeCall[k], res |-> res])
        /\ IF res = "ok"
           THEN /\ dplan' = [dplan EXCEPT ![k] = SeqOf({r.id : r \in Resolved(k)})]
                /\ IF dkind < Len(Kinds)
                   THEN /\ dkind' = dkind + 1
                        /\ UNCHANGED <<dpc, dret>>
                   ELSE /\ dpc' = "returned"
                        /\ dret' = "nil"
                        /\ UNCHANGED dkind
           ELSE /\ dpc' = "returned"
                /\ dret' = "err"
                /\ UNCHANGED <<dplan, dkind>>
    /\ UNCHANGED <<world, request>>
    /\ UNCHANGED notDiscoveryVars

PlanInstances == PlanStep("Instances")

PlanLaunchTemplates == PlanStep("LaunchTemplates")

PlanSecurityGroups == PlanStep("SecurityGroups")

PlanInternetGateways == PlanStep("InternetGateways")

PlanRouteTables == PlanStep("RouteTables")

PlanSubnets == PlanStep("Subnets")

PlanVPCs == PlanStep("VPCs")

NextDiscovery ==
    \/ LaunchSucceeds
    \/ DeletionPlanCall
    \/ PlanInstances
    \/ PlanLaunchTemplates
    \/ PlanSecurityGroups
    \/ PlanInternetGateways
    \/ PlanRouteTables
    \/ PlanSubnets
    \/ PlanVPCs

SpecDiscovery == InitDiscovery /\ [][NextDiscovery]_vars

\* the resources Launch created
Launched == {r \in world : r.id[1] # "other"}

\* the kinds of which the launch creates resources that the claim names
CreatedKinds ==
    {"VPCs", "Subnets", "InternetGateways", "RouteTables", "SecurityGroups", "LaunchTemplates"}

\* C19: for a namespace and a non-empty name, a DeletionPlan(namespace, name) that follows a
\* successful bootstrap Launch(namespace, name) and returns without error contains every
\* resource the Launch created: the VPC, each subnet, the internet gateway, the public route
\* table, the security group and the launch template.
C19_DiscoveryCoversLaunch ==
    (Launched # {} /\ request.namespace # "" /\ request.name # ""
        /\ dpc = "returned" /\ dret = "nil") =>
        \A r \in Launched :
            r.kind \in CreatedKinds => r.id \in Range(dplan[r.kind])

\* the resource of the kind with the id
ResourceOf(k, id) == CHOOSE r \in world : r.kind = k /\ r.id = id

\* the resource carries the namespace and created-by tags of the request, and its name tag
\* when the request has a name
CarriesRequestTags(r) ==
    /\ <<NamespaceTagKey, Str(request.namespace)>> \in r.tags
    /\ <<CreatedByTagKey, Str(SystemPrefixKey)>> \in r.tags
    /\ request.name # "" => <<NameTagKey, Str(request.name)>> \in r.tags

\* C20: DeletionPlan issues describe calls only, and every resource it places in the
\* DeletionSpec carries the namespace tag and the created-by tag of the request, and the name
\* tag when a name is given.
C20_ReadOnlyTagMatch ==
    /\ \A i \in 1..Len(dcalls) : dcalls[i].api \in {DescribeCall[k] : k \in KindSet}
    /\ \A k \in KindSet : \A id \in Range(dplan[k]) : CarriesRequestTags(ResourceOf(k, id))

----------------------------------------------------------------------------
(* Concurrent invocations of AWSVM.Launch on the bootstrap path: the VPC    *)
(* lookup and the VPC creation of each invocation are separate provider     *)
(* calls, and the calls of different invocations interleave                 *)

MaxLaunches == 2

Launchers == 1..MaxLaunches

LaunchNamespaces == {"ns1", "ns2"}

\* the selector of the VPC lookup: Tags: {tagutils.NamespaceTagKey: namespace}
NamespaceSelector(namespace) == {<<NamespaceTagKey, Str(namespace)>>}

\* vpcWatcher.Resolve with that selector: the ids of the VPCs of the account that match
ExistingVPCs(vpcs, namespace) ==
    SeqOf({v.id : v \in {w \in vpcs : TagsMatch(NamespaceSelector(namespace), w.tags)}})

\* a create that adds nothing when the namespace has a VPC already
CreateVPCIfAbsent(vpcs, p, namespace, name) ==
    IF ExistingVPCs(vpcs, namespace) # <<>> THEN vpcs
    ELSE vpcs \cup {[id |-> <<"vpc-new", p>>, tags |-> NamespacedTags(namespace, name)]}

\* vpcs.Watcher.Create: CreateVpc with EC2NamespacedTags(namespace, name), a new VPC each time
CreateVPC(vpcs, p, namespace, name) ==
    vpcs \cup {[id |-> <<"vpc-new", p>>, tags |-> NamespacedTags(namespace, name)]}

\* a VPC the account may hold before any of the invocations starts
EarlierVPCs == {{}, {[id |-> <<"vpc-old", 0>>, tags |-> NamespacedTags("ns1", "vm0")]}}

InitConcurrent ==
    /\ account \in EarlierVPCs
    /\ \E ns \in [Launchers -> LaunchNamespaces] :
        launchers = [p \in Launchers |->
                        [namespace |-> ns[p], name |-> "vm1", pc |-> "resolveVPCs",
                         existingVPCs |-> <<>>, vpc |-> <<>>, ret |-> "none"]]
    /\ ccalls = <<>>
    /\ DeleteIdle
    /\ LaunchIdle
    /\ FleetIdle
    /\ DiscoveryIdle
    /\ AmiIdle
    /\ ResolveIdle
    /\ ParseIdle
    /\ CliIdle

ConcurrentLog(p, api, res) == Append(ccalls, [by |-> p, api |-> api, res |-> res])

\* invocation p: existingVPCs, err := v.vpcWatcher.Resolve(ctx, ...); if len(existingVPCs) == 0
ConcurrentResolveVPCs(p) ==
    /\ launchers[p].pc = "resolveVPCs"
    /\ \E res \in LaunchOutcomes :
        /\ ccalls' = ConcurrentLog(p, "DescribeVpcs", res)
        /\ IF res = "ok"
           THEN LET existingVPCs == ExistingVPCs(account, launchers[p].namespace) IN
                launchers' = [launchers EXCEPT
                    ![p].existingVPCs = existingVPCs,
                    ![p].vpc = IF NoExistingVPC(existingVPCs) THEN <<>> ELSE existingVPCs[1],
                    ![p].pc = IF NoExistingVPC(existingVPCs) THEN "createVpc" ELSE "reuseVpc"]
           ELSE launchers' = [launchers EXCEPT ![p].pc = "returned", ![p].ret = "err"]
    /\ UNCHANGED account
    /\ UNCHANGED notConcurrentVars

\* invocation p: vpc, err = v.vpcWatcher.Create(ctx, namespace, name, "10.0.0.0/16")
ConcurrentCreateVpc(p) ==
    /\ launchers[p].pc = "createVpc"
    /\ \E res \in LaunchOutcomes :
        /\ ccalls' = ConcurrentLog(p, "CreateVpc", res)
        /\ IF res = "ok"
           THEN /\ account' = CreateVPC(account, p, launchers[p].namespace, launchers[p].name)
                /\ launchers' = [launchers EXCEPT ![p].vpc = <<"vpc-new", p>>,
                                                  ![p].pc = "createdVpc"]
           ELSE /\ launchers' = [launchers EXCEPT ![p].pc = "returned", ![p].ret = "err"]
                /\ UNCHANGED account
    /\ UNCHANGED notConcurrentVars

NextConcurrent ==
    \E p \in Launchers : ConcurrentResolveVPCs(p) \/ ConcurrentCreateVpc(p)

SpecConcurrent == InitConcurrent /\ [][NextConcurrent]_vars

\* the VPCs of the account that carry the namespace tag of the namespace
NamespaceVPCs(namespace) ==
    {v \in account : <<NamespaceTagKey, Str(namespace)>> \in v.tags}

\* C21: no lock and no re-check stands between the VPC lookup of a Launch and its VPC
\* creation: every invocation whose lookup found no VPC of its namespace and whose CreateVpc
\* call succeeded has added a VPC of its own tagged with the namespace, whatever the other
\* invocations of the namespace did in between.
C21_NoMutualExclusion ==
    \A p \in Launchers :
        launchers[p].pc = "createdVpc" =>
            /\ launchers[p].existingVPCs = <<>>
            /\ \E v \in NamespaceVPCs(launchers[p].namespace) : v.id = <<"vpc-new", p>>

\* two invocations of one namespace both found no VPC and the namespace now has two VPCs
C21_Witness ==
    \E p, q \in Launchers :
        /\ p # q
        /\ launchers[p].namespace = launchers[q].namespace
        /\ launchers[p].pc = "createdVpc" /\ launchers[q].pc = "createdVpc"
        /\ launchers[p].existingVPCs = <<>> /\ launchers[q].existingVPCs = <<>>
        /\ Cardinality(NamespaceVPCs(launchers[p].namespace)) >= 2

----------------------------------------------------------------------------
(* EC2 filters: a filter is a name and a list of values, a resource matches *)
(* it when its attribute of that name is one of the values; the filters of  *)
(* one describe call are AND'd                                              *)

Filter(name, values) == [Name |-> name, Values |-> values]

\* selectors.TagsToEC2Filters(tags): tag-key for the values "*" and "", tag:<key> otherwise
TagsToEC2Filters(tags) ==
    {IF kv[2] = <<"*">> \/ kv[2] = <<>>
     THEN Filter(<<"tag-key">>, {kv[1]})
     ELSE Filter(<<"tag", kv[1]>>, {kv[2]}) : kv \in tags}

\* the attribute of a resource a filter of the given name looks at
Attribute(r, name) ==
    CASE name[1] \in {"image-id", "instance-id", "subnet-id", "group-id"} -> Str(r.id)
      [] name[1] = "owner-alias" -> Str(r.owner)
      [] name[1] \in {"name", "group-name"} -> Str(r.name)
      [] name[1] = "architecture" -> Str(r.architecture)
      [] name[1] = "vpc-id" -> Str(r.vpc)
      [] name[1] = "instance-state-name" -> Str(r.state)

Ec2FilterMatches(f, r) ==
    CASE f.Name[1] = "tag-key" -> \E kv \in r.tags : kv[1] \in f.Values
      [] f.Name[1] = "tag" -> \E kv \in r.tags : kv[1] = f.Name[2] /\ kv[2] \in f.Values
      [] OTHER -> Attribute(r, f.Name) \in f.Values

\* the resources of a catalog (a list) a describe call with the filters returns, in order
Describe(catalog, filters) ==
    SelectSeq(catalog, LAMBDA r : \A f \in filters : Ec2FilterMatches(f, r))

\* the ids of a list of resources
IdsOf(list) == [n \in 1..Len(list) |-> list[n].id]

----------------------------------------------------------------------------
(* amis.Watcher.Resolve and its filterSets *)

MaxAmiSelectors == 2

EC2Resource(id, owner, name, architecture, vpc, state, tags) ==
    [id |-> id, owner |-> owner, name |-> name, architecture |-> architecture,
     vpc |-> vpc, state |-> state, tags |-> tags]

\* the images of the region: two Amazon images, one of the account, one of a third party
\* that took the name of the Amazon images
Images ==
    <<EC2Resource("ami-1", "amazon", "al", "arm64", "", "available", {}),
      EC2Resource("ami-2", "amazon", "al", "x86_64", "", "available", {}),
      EC2Resource("ami-3", "self", "mine", "x86_64", "", "available", {<<"team", <<"a">>>>}),
      EC2Resource("ami-4", "other", "al", "x86_64", "", "available", {<<"team", <<"a">>>>})>>

\* var aliases: the SSM paths of each alias
Aliases == [al2023 |-> <<"al2023-arm64", "al2023-x86_64">>]

\* the SSM parameters that exist, and their values
ParameterStore ==
    [p \in {"al2023-arm64", "al2023-x86_64", "/param/other", "/param/mine"} |->
        CASE p = "al2023-arm64" -> "ami-1"
          [] p = "al2023-x86_64" -> "ami-2"
          [] p = "/param/other" -> "ami-4"
          [] p = "/param/mine" -> "ami-3"]

AmiSelector(id, owner, name, architecture, ssmPath, alias, tags) ==
    [ID |-> id, OwnerID |-> owner, Name |-> name, Architecture |-> architecture,
     SSM |-> ssmPath, Alias |-> alias, Tags |-> tags]

\* the selectors a caller may pass
AmiSelectorPool ==
    {AmiSelector("ami-3", "", "", "", "", "", {}),
     AmiSelector("", "", "al", "", "", "", {}),
     AmiSelector("", "other", "al", "", "", "", {}),
     AmiSelector("", "", "", "x86_64", "", "", {}),
     AmiSelector("", "", "", "", "", "", {<<"team", <<"a">>>>}),
     AmiSelector("", "", "", "", "", "al2023", {}),
     AmiSelector("", "", "", "arm64", "", "al2023", {}),
     AmiSelector("", "", "", "", "/param/other", "", {}),
     AmiSelector("", "", "", "", "/param/mine", "", {}),
     AmiSelector("", "", "", "", "/param/none", "", {}),
     AmiSelector("", "amazon", "", "", "", "", {}),
     AmiSelector("", "", "", "", "", "", {})}

\* the filters of one selector without any owner-alias filter when no owner is given
AmiFiltersNoDefaultOwner(term) ==
    (IF term.ID # "" THEN {Filter(<<"image-id">>, {Str(term.ID)})} ELSE {})
    \cup (IF term.OwnerID # "" THEN {Filter(<<"owner-alias">>, {Str(term.OwnerID)})} ELSE {})
    \cup (IF term.Name # "" THEN {Filter(<<"name">>, {Str(term.Name)})} ELSE {})
    \cup (IF term.Architecture # ""
          THEN {Filter(<<"architecture">>, {Str(term.Architecture)})} ELSE {})
    \cup TagsToEC2Filters(term.Tags)

\* amis.filterSets, the filters of one selector
AmiFilters(term) ==
    (IF term.ID # "" THEN {Filter(<<"image-id">>, {Str(term.ID)})} ELSE {})
    \cup (IF term.OwnerID # ""
          THEN {Filter(<<"owner-alias">>, {Str(term.OwnerID)})}
          ELSE {Filter(<<"owner-alias">>, {<<"self">>, <<"amazon">>})})
    \cup (IF term.Name # "" THEN {Filter(<<"name">>, {Str(term.Name)})} ELSE {})
    \cup (IF term.Architecture # ""
          THEN {Filter(<<"architecture">>, {Str(term.Architecture)})} ELSE {})
    \cup TagsToEC2Filters(term.Tags)

\* amis.filterSets: one list of filters per selector, in the order of the selectors
AmiFilterSets(selectorList) == [n \in 1..Len(selectorList) |-> AmiFilters(selectorList[n])]

\* paths: the SSM paths of the alias, then the SSM path of the selector
AmiPaths(term) ==
    (IF term.Alias # "" THEN Aliases[term.Alias] ELSE <<>>)
    \o (IF term.SSM # "" THEN <<term.SSM>> ELSE <<>>)

\* ssm GetParameters: the values of the paths that exist
GetParameters(paths) ==
    LET found == SelectSeq(paths, LAMBDA path : path \in DOMAIN ParameterStore) IN
    [n \in 1..Len(found) |-> ParameterStore[found[n]]]

\* lo.Intersect(list1, list2): the elements of list2 that list1 holds
Intersect(list1, list2) == SelectSeq(list2, LAMBDA x : x \in Range(list1))

\* lo.Map(filteredAMIs, ...): the first candidate of each id
CandidateOf(candidates, id) ==
    candidates[CHOOSE n \in 1..Len(candidates) :
                    /\ candidates[n].id = id
                    /\ \A m \in 1..(n - 1) : candidates[m].id # id]

InitAmis ==
    /\ amiSelectors \in ListsUpTo(AmiSelectorPool, MaxAmiSelectors)
    /\ amiList = <<>>
    /\ resolveAMIDetails = <<>>
    /\ apc = "ssm"
    /\ ai = 1
    /\ acalls = <<>>
    /\ aret = "none"
    /\ DeleteIdle
    /\ LaunchIdle
    /\ FleetIdle
    /\ DiscoveryIdle
    /\ ConcurrentIdle
    /\ ResolveIdle
    /\ ParseIdle
    /\ CliIdle

AmiLog(api, filters, ids, res, out) ==
    Append(acalls, [api |-> api, selector |-> ai, Filters |-> filters, ImageIds |-> ids,
                    res |-> res, out |-> out])

AmiReturn(list, err) ==
    /\ amiList' = list
    /\ aret' = err
    /\ apc' = "returned"

\* the top of the loop body: the SSM paths of the selector are read with GetParameters
AmiParameters ==
    /\ apc = "ssm"
    /\ ai <= Len(amiSelectors)
    /\ LET paths == AmiPaths(amiSelectors[ai]) IN
       IF Len(paths) # 0
       THEN \E res \in LaunchOutcomes :
            /\ acalls' = AmiLog("GetParameters", {}, paths, res, <<>>)
            /\ IF res = "ok"
               THEN /\ resolveAMIDetails' = resolveAMIDetails \o GetParameters(paths)
                    /\ apc' = "filters"
                    /\ UNCHANGED <<amiList, aret>>
               ELSE /\ AmiReturn(amiList, "err")
                    /\ UNCHANGED resolveAMIDetails
       ELSE /\ apc' = "filters"
            /\ UNCHANGED <<amiList, resolveAMIDetails, acalls, aret>>
    /\ UNCHANGED <<amiSelectors, ai>>
    /\ UNCHANGED notAmiVars

\* if len(filters) <= 1 && len(resolveAMIDetails) == 0: error; else DescribeImages(Filters)
AmiDescribeFilters ==
    /\ apc = "filters"
    /\ LET filters == AmiFilterSets(amiSelectors)[ai] IN
       IF Cardinality(filters) <= 1 /\ Len(resolveAMIDetails) = 0
       THEN /\ AmiReturn(amiList, "err")
            /\ UNCHANGED <<ai, acalls>>
       ELSE \E res \in LaunchOutcomes :
            IF res = "ok"
            THEN LET page == Describe(Images, filters) IN
                 /\ acalls' = AmiLog("DescribeImages", filters, <<>>, res, IdsOf(page))
                 /\ amiList' = amiList \o page
                 /\ IF Len(resolveAMIDetails) # 0
                    THEN apc' = "candidates" /\ UNCHANGED ai
                    ELSE apc' = "ssm" /\ ai' = ai + 1
                 /\ UNCHANGED aret
            ELSE /\ acalls' = AmiLog("DescribeImages", filters, <<>>, res, <<>>)
                 /\ AmiReturn(<<>>, "err")
                 /\ UNCHANGED ai
    /\ UNCHANGED <<amiSelectors, resolveAMIDetails>>
    /\ UNCHANGED notAmiVars

\* DescribeImages(ImageIds: resolveAMIDetails), then all of them or the intersection
AmiDescribeCandidates ==
    /\ apc = "candidates"
    /\ \E res \in LaunchOutcomes :
        IF res = "ok"
        THEN LET amiCandidates ==
                    SelectSeq(Images, LAMBDA r : r.id \in Range(resolveAMIDetails))
                 filters == AmiFilterSets(amiSelectors)[ai]
                 filteredAMIs == Intersect(IdsOf(amiList), IdsOf(amiCandidates)) IN
             /\ acalls' = AmiLog("DescribeImages", {}, resolveAMIDetails, res,
                                 IdsOf(amiCandidates))
             /\ amiList' = IF Cardinality(filters) = 0
                        THEN amiList \o amiCandidates
                        ELSE [n \in 1..Len(filteredAMIs) |->
                                CandidateOf(amiCandidates, filteredAMIs[n])]
             /\ apc' = "ssm"
             /\ ai' = ai + 1
             /\ UNCHANGED aret
        ELSE /\ acalls' = AmiLog("DescribeImages", {}, resolveAMIDetails, res, <<>>)
             /\ AmiReturn(<<>>, "err")
             /\ UNCHANGED ai
    /\ UNCHANGED <<amiSelectors, resolveAMIDetails>>
    /\ UNCHANGED notAmiVars

\* return amis, nil
AmiDone ==
    /\ apc = "ssm"
    /\ ai > Len(amiSelectors)
    /\ AmiReturn(amiList, "nil")
    /\ UNCHANGED <<amiSelectors, resolveAMIDetails, ai, acalls>>
    /\ UNCHANGED notAmiVars

NextAmis == AmiParameters \/ AmiDescribeFilters \/ AmiDescribeCandidates \/ AmiDone

SpecAmis == InitAmis /\ [][NextAmis]_vars

\* the ids of the images a selector matches on its own: those its filters match, narrowed to
\* the images its alias or SSM path resolves to when it has one
MatchedBy(term) ==
    LET byFilters == Range(IdsOf(Describe(Images, AmiFilters(term)))) IN
    IF Len(AmiPaths(term)) # 0
    THEN byFilters \cap Range(GetParameters(AmiPaths(term)))
    ELSE byFilters

\* C22: when amis.Resolve returns without error, its result contains every AMI matched by
\* each selector of the list, whatever selectors precede or follow it.
C22_OrAcrossSelectors ==
    (apc = "returned" /\ aret = "nil") =>
        \A i \in 1..Len(amiSelectors) :
            MatchedBy(amiSelectors[i]) \subseteq Range(IdsOf(amiList))

\* the query carried an owner-alias filter
OwnerRestricted(call) ==
    call.api = "DescribeImages" /\ \E f \in call.Filters : f.Name = <<"owner-alias">>

\* C23: the filters of every selector without an explicit owner contain the owner
\* restriction to self and amazon, and every AMI in the list amis.Resolve builds and returns,
\* those reached through an alias or an SSM parameter included, was returned by a query with
\* an owner restriction.
C23_OwnerRestriction ==
    /\ \A i \in 1..Len(amiSelectors) :
        amiSelectors[i].OwnerID = "" =>
            Filter(<<"owner-alias">>, {<<"self">>, <<"amazon">>})
                \in AmiFilterSets(amiSelectors)[i]
    /\ \A n \in 1..Len(amiList) :
        \E c \in 1..Len(acalls) :
            OwnerRestricted(acalls[c]) /\ amiList[n].id \in Range(acalls[c].out)

\* a selector with an alias and no owner resolved to the images of the alias
C23_Witness ==
    /\ apc = "returned"
    /\ aret = "nil"
    /\ \E i \in 1..Len(amiSelectors) :
        amiSelectors[i].Alias # "" /\ amiSelectors[i].OwnerID = ""
    /\ Range(IdsOf(amiList)) = {"ami-1", "ami-2"}

\* the selector has no id, name, architecture, tag, alias or SSM criterion
NoCriterion(term) ==
    /\ term.ID = "" /\ term.Name = "" /\ term.Architecture = ""
    /\ term.Tags = {} /\ term.Alias = "" /\ term.SSM = ""

\* C24: when a selector of the list has no criterion of its own, amis.Resolve does not
\* return without error, and no image query is issued for that selector.
C24_CriterionRequired ==
    /\ (apc = "returned" /\ aret = "nil") =>
            \A i \in 1..Len(amiSelectors) : ~NoCriterion(amiSelectors[i])
    /\ \A c \in 1..Len(acalls) :
        acalls[c].api = "DescribeImages" => ~NoCriterion(amiSelectors[acalls[c].selector])

----------------------------------------------------------------------------
(* Resolve and filterSets of the providers subnets, securitygroups and      *)
(* instances                                                                *)

MaxSelectors == 2

Providers == {"subnets", "securitygroups", "instances"}

\* a Selector struct; a provider leaves the fields its struct does not have empty
Selector(id, name, vpcID, state, tags) ==
    [ID |-> id, Name |-> name, VPCID |-> vpcID, State |-> state, Tags |-> tags]

\* the name of the filter on the resource id in each provider
IdFilterName ==
    [subnets |-> <<"subnet-id">>, securitygroups |-> <<"group-id">>,
     instances |-> <<"instance-id">>]

EnvDev == {<<"env", <<"dev">>>>}

\* the resources of the account a describe call of the provider sees
Catalog ==
    <<EC2Resource("r-1", "", "web", "", "vpc-1", "running", EnvDev),
      EC2Resource("r-2", "", "db", "", "vpc-1", "running", {}),
      EC2Resource("r-3", "", "web", "", "vpc-2", "stopped", EnvDev)>>

\* the selectors a caller of each provider may pass
SelectorPool ==
    [subnets |->
        {Selector("r-1", "", "", "", {}), Selector("r-2", "", "", "", {}),
         Selector("", "", "vpc-1", "", {}), Selector("", "", "", "", EnvDev),
         Selector("r-2", "", "", "", EnvDev), Selector("", "", "vpc-1", "", EnvDev),
         Selector("r-3", "", "vpc-1", "", {})},
     securitygroups |->
        {Selector("r-1", "", "", "", {}), Selector("r-2", "", "", "", {}),
         Selector("", "web", "", "", {}), Selector("", "", "", "", EnvDev),
         Selector("r-2", "", "", "", EnvDev), Selector("", "db", "", "", EnvDev),
         Selector("r-1", "db", "", "", {})},
     instances |->
        {Selector("r-1", "", "", "", {}), Selector("r-2", "", "", "", {}),
         Selector("", "", "", "running", {}), Selector("", "", "", "", EnvDev),
         Selector("r-2", "", "", "", EnvDev), Selector("", "", "", "running", EnvDev),
         Selector("r-3", "", "", "running", {})}]

\* the tag filters both subnets.filterSets and securitygroups.filterSets build inline
InlineTagFilters(tags) == TagsToEC2Filters(tags)

RECURSIVE SubnetGroups(_, _, _, _)
\* subnets.filterSets, the loop from term n on: ids are collected into idFilter, a VPC id
\* gives a group of its own, any other term a group of its tag filters
SubnetGroups(selectorList, n, filterResult, idValues) ==
    IF n > Len(selectorList)
    THEN IF idValues # {}
         THEN Append(filterResult, {Filter(<<"subnet-id">>, idValues)})
         ELSE filterResult
    ELSE LET term == selectorList[n] IN
         CASE term.ID # "" ->
                SubnetGroups(selectorList, n + 1, filterResult, idValues \cup {Str(term.ID)})
           [] term.ID = "" /\ term.VPCID # "" ->
                SubnetGroups(selectorList, n + 1,
                             Append(filterResult, {Filter(<<"vpc-id">>, {Str(term.VPCID)})}),
                             idValues)
           [] OTHER ->
                SubnetGroups(selectorList, n + 1,
                             Append(filterResult, InlineTagFilters(term.Tags)), idValues)

RECURSIVE SecurityGroupGroups(_, _, _, _, _)
\* securitygroups.filterSets: ids are collected into idFilter, names into nameFilter
SecurityGroupGroups(selectorList, n, filterResult, idValues, nameValues) ==
    IF n > Len(selectorList)
    THEN LET withIds == IF idValues # {}
                        THEN Append(filterResult, {Filter(<<"group-id">>, idValues)})
                        ELSE filterResult IN
         IF nameValues # {}
         THEN Append(withIds, {Filter(<<"group-name">>, nameValues)})
         ELSE withIds
    ELSE LET term == selectorList[n] IN
         CASE term.ID # "" ->
                SecurityGroupGroups(selectorList, n + 1, filterResult,
                                    idValues \cup {Str(term.ID)}, nameValues)
           [] term.ID = "" /\ term.Name # "" ->
                SecurityGroupGroups(selectorList, n + 1, filterResult, idValues,
                                    nameValues \cup {Str(term.Name)})
           [] OTHER ->
                SecurityGroupGroups(selectorList, n + 1,
                                    Append(filterResult, InlineTagFilters(term.Tags)),
                                    idValues, nameValues)

\* instances.filterSets: one group per term, of its id, its state and its tags
InstanceGroups(selectorList) ==
    [n \in 1..Len(selectorList) |->
        LET term == selectorList[n] IN
        (IF term.ID # "" THEN {Filter(<<"instance-id">>, {Str(term.ID)})} ELSE {})
        \cup (IF term.State # ""
              THEN {Filter(<<"instance-state-name">>, {Str(term.State)})} ELSE {})
        \cup TagsToEC2Filters(term.Tags)]

\* filterSets of the provider
FilterSets(provider, selectorList) ==
    CASE provider = "subnets" -> SubnetGroups(selectorList, 1, <<>>, {})
      [] provider = "securitygroups" -> SecurityGroupGroups(selectorList, 1, <<>>, {}, {})
      [] provider = "instances" -> InstanceGroups(selectorList)

InitResolve ==
    /\ rprovider \in Providers
    /\ rselectors \in ListsUpTo(SelectorPool[rprovider], MaxSelectors)
    /\ rgroups = <<>>
    /\ rlist = <<>>
    /\ rpc = "filterSets"
    /\ ri = 1
    /\ rcalls = <<>>
    /\ rret = "none"
    /\ DeleteIdle
    /\ LaunchIdle
    /\ FleetIdle
    /\ DiscoveryIdle
    /\ ConcurrentIdle
    /\ AmiIdle
    /\ ParseIdle
    /\ CliIdle

\* range filterSets(selectors): the groups are computed once, before the loop
ResolveFilterSets ==
    /\ rpc = "filterSets"
    /\ rgroups' = FilterSets(rprovider, rselectors)
    /\ rpc' = "describe"
    /\ UNCHANGED <<rprovider, rselectors, rlist, ri, rcalls, rret>>
    /\ UNCHANGED notResolveVars

\* the resources a describe call appended to what was found before
Appended(list, page) == list \o page

\* one pass of the loop: the describe call of group ri, its pages appended to the list
ResolveDescribe ==
    /\ rpc = "describe"
    /\ ri <= Len(rgroups)
    /\ \E res \in LaunchOutcomes :
        /\ rcalls' = Append(rcalls, [Filters |-> rgroups[ri], res |-> res])
        /\ IF res = "ok"
           THEN /\ rlist' = Appended(rlist, Describe(Catalog, rgroups[ri]))
                /\ ri' = ri + 1
                /\ UNCHANGED <<rpc, rret>>
           ELSE /\ rlist' = <<>>
                /\ rret' = "err"
                /\ rpc' = "returned"
                /\ UNCHANGED ri
    /\ UNCHANGED <<rprovider, rselectors, rgroups>>
    /\ UNCHANGED notResolveVars

\* return the list, nil
ResolveDone ==
    /\ rpc = "describe"
    /\ ri > Len(rgroups)
    /\ rret' = "nil"
    /\ rpc' = "returned"
    /\ UNCHANGED <<rprovider, rselectors, rgroups, rlist, ri, rcalls>>
    /\ UNCHANGED notResolveVars

NextResolve == ResolveFilterSets \/ ResolveDescribe \/ ResolveDone

SpecResolve == InitResolve /\ [][NextResolve]_vars

\* the conjunction of all populated criteria of a selector
AllCriteria(provider, term) ==
    (IF term.ID # "" THEN {Filter(IdFilterName[provider], {Str(term.ID)})} ELSE {})
    \cup (IF term.Name # "" THEN {Filter(<<"group-name">>, {Str(term.Name)})} ELSE {})
    \cup (IF term.VPCID # "" THEN {Filter(<<"vpc-id">>, {Str(term.VPCID)})} ELSE {})
    \cup (IF term.State # ""
          THEN {Filter(<<"instance-state-name">>, {Str(term.State)})} ELSE {})
    \cup TagsToEC2Filters(term.Tags)

\* C25: filterSets returns exactly one group per selector, in the order of the selectors, and
\* group i holds every populated criterion of selector i (the id predicate and every tag
\* predicate for a selector with an id and tags) and nothing else.
C25_OneGroupPerSelector ==
    rpc \in {"describe", "returned"} =>
        /\ Len(rgroups) = Len(rselectors)
        /\ \A i \in 1..Len(rgroups) : rgroups[i] = AllCriteria(rprovider, rselectors[i])

\* C26: each resource appears at most once in the list Resolve returns.
C26_NoDuplicates ==
    (rpc = "returned" /\ rret = "nil") =>
        \A m, n \in 1..Len(rlist) : rlist[m].id = rlist[n].id => m = n

----------------------------------------------------------------------------
(* selectors.ParseSelectorsTokens.  A string is the list of its tokens: the *)
(* separators ";" "," ":" "=", the space, and words                         *)

MaxInputLen == 5

MaxCriteria == 4

\* the tokens of the inputs that are enumerated exhaustively
Alphabet == {"tag", "a", ":", "=", ",", ";", " "}

\* the position of the first token sep of s, 0 when there is none
IndexOf(s, sep) ==
    IF \E n \in 1..Len(s) : s[n] = sep
    THEN CHOOSE n \in 1..Len(s) : s[n] = sep /\ \A m \in 1..(n - 1) : s[m] # sep
    ELSE 0

\* the white space of the inputs: the space and the line feed
WhiteSpace == {" ", "\n"}

\* strings.TrimSpace
TrimSpace(s) ==
    IF \A n \in 1..Len(s) : s[n] \in WhiteSpace THEN <<>>
    ELSE LET first == CHOOSE n \in 1..Len(s) :
                        s[n] \notin WhiteSpace /\ \A m \in 1..(n - 1) : s[m] \in WhiteSpace
             last == CHOOSE n \in 1..Len(s) :
                        s[n] \notin WhiteSpace /\ \A m \in (n + 1)..Len(s) : s[m] \in WhiteSpace IN
         SubSeq(s, first, last)

RECURSIVE Split(_, _)
\* strings.Split(s, sep): the pieces between the separators, one piece for a string without
Split(s, sep) ==
    LET n == IndexOf(s, sep) IN
    IF n = 0 THEN <<s>>
    ELSE <<SubSeq(s, 1, n - 1)>> \o Split(SubSeq(s, n + 1, Len(s)), sep)

\* a cut at the last separator instead of the first
CutLast(s, sep) ==
    IF \A n \in 1..Len(s) : s[n] # sep
    THEN [before |-> s, after |-> <<>>, found |-> FALSE]
    ELSE LET n == CHOOSE k \in 1..Len(s) : s[k] = sep /\ \A m \in (k + 1)..Len(s) : s[m] # sep
         IN [before |-> SubSeq(s, 1, n - 1), after |-> SubSeq(s, n + 1, Len(s)),
             found |-> TRUE]

\* strings.Cut(s, sep)
Cut(s, sep) ==
    LET n == IndexOf(s, sep) IN
    IF n = 0 THEN [before |-> s, after |-> <<>>, found |-> FALSE]
    ELSE [before |-> SubSeq(s, 1, n - 1), after |-> SubSeq(s, n + 1, Len(s)), found |-> TRUE]

\* strings.ToLower on the words
Lower(token) ==
    CASE token = "Name" -> "name"
      [] token = "ID" -> "id"
      [] token = "Tag" -> "tag"
      [] token = "Y" -> "y"
      [] OTHER -> token

\* the keyword as it was written
SameCase(s) == s

ToLower(s) == [n \in 1..Len(s) |-> Lower(s[n])]

\* m[k] = v on a map, as the set of its key/value pairs
Put(m, k, v) == {kv \in m : kv[1] # k} \cup {<<k, v>>}

\* GenericSelector{}
EmptySelector == [Tags |-> {}, KeyVals |-> {}]

\* an error returned with the selectors parsed before it
PartialResult(genericSelectors) == [selectors |-> genericSelectors, err |-> "err"]

\* return nil, fmt.Errorf(...)
ParseFailure(genericSelectors) == [selectors |-> <<>>, err |-> "err"]

RECURSIVE ParseComponents(_, _, _)
\* the loop over the components of one term, from component n on
ParseComponents(components, n, genericSelector) ==
    IF n > Len(components) THEN [selector |-> genericSelector, err |-> "nil"]
    ELSE LET cut == Cut(components[n], ":")
             keyword == cut.before
             value == cut.after
             tagTokens == Split(value, "=") IN
         IF ~cut.found THEN [selector |-> genericSelector, err |-> "err"]
         ELSE IF keyword = <<"tag">>
         THEN IF Len(tagTokens) > 2 THEN [selector |-> genericSelector, err |-> "err"]
              ELSE ParseComponents(components, n + 1,
                        [genericSelector EXCEPT !.Tags =
                            Put(@, tagTokens[1],
                                IF Len(tagTokens) = 1 THEN <<>> ELSE tagTokens[2])])
         ELSE ParseComponents(components, n + 1,
                        [genericSelector EXCEPT !.KeyVals = Put(@, ToLower(keyword), value)])

\* no term is taken for an empty one
NeverSkipped(term) == FALSE

\* if strings.TrimSpace(term) == "" { continue }
SkippedTerm(term) == TrimSpace(term) = <<>>

RECURSIVE ParseTerms(_, _, _)
\* the loop over the terms, from term n on
ParseTerms(selectorTerms, n, genericSelectors) ==
    IF n > Len(selectorTerms) THEN [selectors |-> genericSelectors, err |-> "nil"]
    ELSE IF SkippedTerm(selectorTerms[n])
    THEN ParseTerms(selectorTerms, n + 1, genericSelectors)
    ELSE LET term == ParseComponents(Split(selectorTerms[n], ","), 1, EmptySelector) IN
         IF term.err # "nil" THEN ParseFailure(genericSelectors)
         ELSE ParseTerms(selectorTerms, n + 1, Append(genericSelectors, term.selector))

\* ParseSelectorsTokens(selectors)
ParseSelectorsTokens(selectors) == ParseTerms(Split(TrimSpace(selectors), ";"), 1, <<>>)

\* one criterion as a caller writes it: tag:key, tag:key=value or keyword:value
Criterion(isTag, key, hasEq, value) ==
    [tag |-> isTag, key |-> key, eq |-> hasEq, value |-> value]

\* the criteria well-formed inputs are written from
CriterionPool ==
    {Criterion(TRUE, <<"Name">>, TRUE, <<"foo">>),
     Criterion(TRUE, <<"Owner">>, TRUE, <<"bar">>),
     Criterion(TRUE, <<"Name">>, FALSE, <<>>),
     Criterion(FALSE, <<"Name">>, FALSE, <<"baz">>),
     Criterion(FALSE, <<"ID">>, FALSE, <<"r-123">>),
     Criterion(FALSE, <<"id">>, FALSE, <<"a", ":", "b">>)}

\* the well-formed inputs: up to MaxCriteria criteria, each but the first after a "," (same
\* term) or a ";" (next term)
Shapes ==
    UNION {{sh \in [1..m -> [criterion : CriterionPool, sep : {",", ";"}]] : sh[1].sep = ";"} :
            m \in 1..MaxCriteria}

\* the text of a criterion
RenderCriterion(c) ==
    IF c.tag
    THEN <<"tag", ":">> \o c.key \o (IF c.eq THEN <<"=">> \o c.value ELSE <<>>)
    ELSE c.key \o <<":">> \o c.value

RECURSIVE Render(_)
\* the text of a well-formed input
Render(sh) ==
    IF sh = <<>> THEN <<>>
    ELSE LET n == Len(sh) IN
         Render(SubSeq(sh, 1, n - 1)) \o (IF n > 1 THEN <<sh[n].sep>> ELSE <<>>)
            \o RenderCriterion(sh[n].criterion)

InitParse ==
    /\ \/ /\ shape \in Shapes
          /\ input = Render(shape)
       \/ /\ shape = <<>>
          /\ input \in SeqsUpTo(Alphabet, MaxInputLen)
    /\ parsed = <<>>
    /\ perr = "none"
    /\ ppc = "called"
    /\ DeleteIdle
    /\ LaunchIdle
    /\ FleetIdle
    /\ DiscoveryIdle
    /\ ConcurrentIdle
    /\ AmiIdle
    /\ ResolveIdle
    /\ CliIdle

\* the call of ParseSelectorsTokens(input)
Parse ==
    /\ ppc = "called"
    /\ LET out == ParseSelectorsTokens(input) IN
        /\ parsed' = out.selectors
        /\ perr' = out.err
    /\ ppc' = "returned"
    /\ UNCHANGED <<input, shape>>
    /\ UNCHANGED notParseVars

NextParse == Parse

SpecParse == InitParse /\ [][NextParse]_vars

\* what a criterion adds to the selector of its term
WithCriterion(selector, c) ==
    IF c.tag
    THEN [selector EXCEPT !.Tags = Put(@, c.key, IF c.eq THEN c.value ELSE <<>>)]
    ELSE [selector EXCEPT !.KeyVals = Put(@, ToLower(c.key), c.value)]

RECURSIVE Structure(_)
\* the selectors a well-formed input stands for: one per term, holding all its criteria
Structure(sh) ==
    IF sh = <<>> THEN <<>>
    ELSE LET n == Len(sh)
             before == Structure(SubSeq(sh, 1, n - 1)) IN
         IF n = 1 \/ sh[n].sep = ";"
         THEN Append(before, WithCriterion(EmptySelector, sh[n].criterion))
         ELSE [before EXCEPT ![Len(before)] = WithCriterion(@, sh[n].criterion)]

\* C27: for a well-formed input ParseSelectorsTokens returns no error and the selectors the
\* input stands for: one selector per ";"-separated term, a tag criterion as tags[key] = value
\* (the empty value without "="), any other criterion as keyVals[lowercase(keyword)] = value.
C27_WellFormedParse ==
    (ppc = "returned" /\ shape # <<>>) =>
        /\ perr = "nil"
        /\ parsed = Structure(shape)

\* 'tag:Name=foo,tag:Owner=bar;Name:baz,ID:r-123' gave {tags Name=foo, Owner=bar} then
\* {keyVals name=baz, id=r-123}
C27_Witness ==
    /\ ppc = "returned"
    /\ input = <<"tag", ":", "Name", "=", "foo", ",", "tag", ":", "Owner", "=", "bar", ";",
                 "Name", ":", "baz", ",", "ID", ":", "r-123">>
    /\ parsed = <<[Tags |-> {<<<<"Name">>, <<"foo">>>>, <<<<"Owner">>, <<"bar">>>>},
                   KeyVals |-> {}],
                  [Tags |-> {},
                   KeyVals |-> {<<<<"name">>, <<"baz">>>>, <<<<"id">>, <<"r-123">>>>}]>>

\* the terms of the input that are not blank, in the order of the input
NonBlankTerms(s) == SelectSeq(Split(TrimSpace(s), ";"), LAMBDA term : TrimSpace(term) # <<>>)

\* the number of "=" in a value
EqualsCount(value) == Cardinality({n \in 1..Len(value) : value[n] = "="})

\* the criterion has no ":", or is a tag criterion with more than one "="
MalformedCriterion(c) ==
    \/ \A n \in 1..Len(c) : c[n] # ":"
    \/ /\ Cut(c, ":").before = <<"tag">>
       /\ EqualsCount(Cut(c, ":").after) > 1

\* some criterion of some term of the input is malformed
Malformed(s) ==
    \E t \in 1..Len(NonBlankTerms(s)) :
        LET criteria == Split(NonBlankTerms(s)[t], ",") IN
        \E n \in 1..Len(criteria) : MalformedCriterion(criteria[n])

\* C28: when a criterion of a term of the input has no ":" or a tag criterion has more than
\* one "=", ParseSelectorsTokens returns an error and no selector, also when terms before the
\* malformed one were parsed.
C28_MalformedRejected ==
    (ppc = "returned" /\ Malformed(input)) =>
        /\ perr = "err"
        /\ parsed = <<>>

\* the second term is malformed after a well-formed first term: an error and no selector
C28_Witness ==
    /\ ppc = "returned"
    /\ Len(NonBlankTerms(input)) = 2
    /\ ~Malformed(NonBlankTerms(input)[1])
    /\ Malformed(NonBlankTerms(input)[2])
    /\ perr = "err"
    /\ parsed = <<>>

RECURSIVE JoinTrimmed(_, _)
\* the pieces, each without the spaces around it, put together again with the separator
JoinTrimmed(pieces, sep) ==
    IF Len(pieces) = 0 THEN <<>>
    ELSE IF Len(pieces) = 1 THEN TrimSpace(pieces[1])
    ELSE JoinTrimmed(SubSeq(pieces, 1, Len(pieces) - 1), sep) \o <<sep>>
            \o TrimSpace(pieces[Len(pieces)])

\* the input without the spaces before and after its terms and its criteria
Unspaced(s) ==
    LET terms == Split(s, ";") IN
    JoinTrimmed([t \in 1..Len(terms) |-> JoinTrimmed(Split(terms[t], ","), ",")], ";")

\* C29: ParseSelectorsTokens returns for an input what it returns for the same input without
\* the spaces before and after its terms and criteria.
C29_WhitespaceTrimmed ==
    ppc = "returned" =>
        [selectors |-> parsed, err |-> perr] = ParseSelectorsTokens(Unspaced(input))

\* C30: when ParseSelectorsTokens returns without error, it returns one selector per
\* non-blank ";"-separated term of the input, in the order of the input; the empty string
\* gives the empty list and no error.
C30_EmptyTermsDropped ==
    ppc = "returned" =>
        /\ perr = "nil" =>
            /\ Len(parsed) = Len(NonBlankTerms(input))
            /\ \A t \in 1..Len(parsed) :
                parsed[t] = ParseComponents(Split(NonBlankTerms(input)[t], ","), 1,
                                            EmptySelector).selector
        /\ input = <<>> => (perr = "nil" /\ parsed = <<>>)

\* an input with an empty term between two terms and a trailing ";" gave two selectors
C30_Witness ==
    /\ ppc = "returned"
    /\ perr = "nil"
    /\ Len(Split(input, ";")) = 4
    /\ Len(parsed) = 2
    /\ input[Len(input)] = ";"

\* no word of the key is written with a capital
IsLowerCase(key) == \A n \in 1..Len(key) : Lower(key[n]) = key[n]

\* C31 as stated: in every selector returned for an accepted input, every key of keyVals and
\* every key of tags is lower-case.
C31_BothMapsLowerCase ==
    (ppc = "returned" /\ perr = "nil") =>
        \A t \in 1..Len(parsed) :
            /\ \A kv \in parsed[t].KeyVals : IsLowerCase(kv[1])
            /\ \A kv \in parsed[t].Tags : IsLowerCase(kv[1])

\* C31 as amended: in every selector returned for an accepted input, every key of keyVals is
\* lower-case; the keys of tags are the keys as written.
C31_KeyValsLowerCase ==
    (ppc = "returned" /\ perr = "nil") =>
        \A t \in 1..Len(parsed) :
            /\ \A kv \in parsed[t].KeyVals : IsLowerCase(kv[1])
            /\ shape # <<>> =>
                \A n \in 1..Len(shape) :
                    shape[n].criterion.tag =>
                        \E u \in 1..Len(parsed) : \E kv \in parsed[u].Tags :
                            kv[1] = shape[n].criterion.key

\* the keyword ID was written with capitals and the selector holds the key id
C31_Witness ==
    /\ ppc = "returned"
    /\ perr = "nil"
    /\ \E n \in 1..Len(shape) : shape[n].criterion.key = <<"ID">> /\ ~shape[n].criterion.tag
    /\ \E n \in 1..Len(shape) : shape[n].criterion.key = <<"Name">> /\ shape[n].criterion.tag
    /\ \E t \in 1..Len(parsed) : \E kv \in parsed[t].KeyVals : kv[1] = <<"id">>

----------------------------------------------------------------------------
(* AWSVM: one invocation sequence of Delete, or one invocation of Launch *)

InitVM == InitDelete \/ InitLaunch

NextVM == NextDelete \/ NextLaunch

SpecVM == InitVM /\ [][NextVM]_vars

\* the calls of Delete that the termination wait repeats on every tick
PollingCalls == {"DescribeInstances"}

\* how many times invocation n of Delete called api for the resource id
DeleteCallCount(n, api, id) ==
    Cardinality({p \in 1..Len(calls) :
        calls[p].inv = n /\ calls[p].api = api /\ calls[p].id = id})

\* how many times Launch called api
LaunchCallCount(api) == Cardinality({i \in 1..Len(lcalls) : lcalls[i].api = api})

\* the call sites of Launch that stand in a loop over the subnets of the new VPC run once
\* per subnet; the security groups are described at two call sites (the lookup by tags
\* and the resolution of the created group)
LaunchCallSites(api) ==
    IF api \in {"CreateSubnet", "ModifySubnetAttribute", "AssociateRouteTable"}
    THEN Len(frame.subnetSpecs)
    ELSE IF api = "DescribeSecurityGroups" THEN 2 ELSE 1

\* C32: within one invocation of Delete a call that returned an error is followed by no
\* further call, and every call other than the termination poll is issued at most once
\* per resource; within one invocation of Launch a create call that failed is followed by
\* no further call of that kind, and every call is issued at most once per call site and
\* resource.
C32_NoRetries ==
    /\ \A p, q \in 1..Len(calls) :
        (p < q /\ calls[p].inv = calls[q].inv /\ calls[p].res = "err") =>
            ~(calls[q].api = calls[p].api /\ calls[q].id = calls[p].id)
    /\ \A p \in 1..Len(calls) :
        calls[p].api \notin PollingCalls =>
            DeleteCallCount(calls[p].inv, calls[p].api, calls[p].id) = 1
    /\ \A i, j \in 1..Len(lcalls) :
        (i < j /\ ApiClass(lcalls[i].api) = "create" /\ lcalls[i].res # "ok") =>
            lcalls[j].api # lcalls[i].api
    /\ \A i \in 1..Len(lcalls) :
        LaunchCallCount(lcalls[i].api) <= LaunchCallSites(lcalls[i].api)

\* a Delete has returned the error of a failed delete call for a resource listed twice
C32_Witness ==
    /\ pc = "returned"
    /\ results[inv] = "err"
    /\ \E k \in KindSet \ {"Instances"} :
        /\ Len(deletionPlan.Spec[k]) = 2
        /\ deletionPlan.Spec[k][1] = deletionPlan.Spec[k][2]
        /\ calls[Len(calls)].kind = k
        /\ calls[Len(calls)].res = "err"

----------------------------------------------------------------------------
(* The subnets of a new VPC *)

\* the block Launch passes to vpcWatcher.Create: 10.0.0.0/16
VpcCidr == <<10, 0, 0, 0, 16>>

\* a block of at least 16 bits lies inside a /16 when its first two bytes are the same
InsideVpc(cidr) ==
    /\ cidr[1] = VpcCidr[1]
    /\ cidr[2] = VpcCidr[2]
    /\ cidr[5] >= VpcCidr[5]

\* the positions of the calls of the api in the log of Launch
CallsOf(api) == {i \in 1..Len(lcalls) : lcalls[i].api = api}

\* C33: once the availability zones are resolved for a new VPC, Launch requests
\* min(3, zones) subnets, the i-th in the i-th zone with CIDR 10.0.(i-1).0/24, pairwise
\* distinct and inside 10.0.0.0/16; every CreateSubnet follows the successful CreateVpc,
\* and CreateInternetGateway and CreateRouteTable follow the creation of all of the subnets.
C33_BootstrapSubnets ==
    LET specs == frame.subnetSpecs IN
    /\ SuccessCount("DescribeAvailabilityZones") > 0 =>
        /\ Len(specs) = (IF cloud.Zones < 3 THEN cloud.Zones ELSE 3)
        /\ SuccessCount("CreateVpc") = 1
    /\ \A i \in 1..Len(specs) :
        /\ specs[i].AZ = i
        /\ specs[i].CIDR = <<10, 0, i - 1, 0, 24>>
        /\ InsideVpc(specs[i].CIDR)
        /\ \A j \in 1..Len(specs) : i # j => specs[i].CIDR # specs[j].CIDR
    /\ \A c \in CallsOf("CreateSubnet") :
        /\ \E v \in CallsOf("CreateVpc") : v < c /\ lcalls[v].res = "ok"
        /\ Cardinality({d \in CallsOf("CreateSubnet") : d <= c}) <= Len(specs)
    /\ \A g \in CallsOf("CreateInternetGateway") \cup CallsOf("CreateRouteTable") :
        /\ \A c \in CallsOf("CreateSubnet") : c < g
        /\ SuccessCount("CreateSubnet") = Len(specs)
        /\ \A i \in 1..Len(specs) : NewSubnet(i) \in cloud.Subnets

\* four zones were returned, three subnets created and the route table requested
C33_Witness ==
    /\ cloud.Zones = MaxZones
    /\ SuccessCount("CreateSubnet") = 3
    /\ CallsOf("CreateRouteTable") # {}

----------------------------------------------------------------------------
(* The command nimbus delete *)

MaxStdinLen == 3

\* the characters the user may type
Keys == {"y", "Y", "n", " ", "\n"}

\* bufio.Reader.ReadString(delim): the input up to and including the first delim, or
\* what is left and io.EOF when there is no delim
ReadString(s, delim) ==
    IF IndexOf(s, delim) = 0
    THEN [line |-> s, err |-> "EOF"]
    ELSE [line |-> SubSeq(s, 1, IndexOf(s, delim)), err |-> "nil"]

\* strings.HasPrefix
HasPrefix(s, prefix) == Len(s) >= Len(prefix) /\ SubSeq(s, 1, Len(prefix)) = prefix

\* variant: the command goes on unless the answer begins with n
NotRefused(answer) == ~HasPrefix(ToLower(TrimSpace(answer)), <<"n">>)

\* strings.HasPrefix(strings.ToLower(strings.TrimSpace(userInput)), "y")
Confirmed(answer) == HasPrefix(ToLower(TrimSpace(answer)), <<"y">>)

InitCli ==
    /\ force \in BOOLEAN
    /\ stdin \in SeqsUpTo(Keys, MaxStdinLen)
    /\ userInput = <<>>
    /\ cpc = "config"
    /\ cliCalls = <<>>
    /\ cret = "none"
    /\ DeleteIdle
    /\ LaunchIdle
    /\ FleetIdle
    /\ DiscoveryIdle
    /\ ConcurrentIdle
    /\ AmiIdle
    /\ ResolveIdle
    /\ ParseIdle

\* return err
CliReturn(err) ==
    /\ cpc' = "returned"
    /\ cret' = err

\* awsCfg, err := AWSConfig(ctx, globalOpts); vmClient := vm.New(awsCfg)
CliConfig ==
    /\ cpc = "config"
    /\ \E res \in {"ok", "err"} :
        IF res = "ok" THEN cpc' = "plan" /\ UNCHANGED cret ELSE CliReturn("err")
    /\ UNCHANGED <<force, stdin, userInput, cliCalls>>
    /\ UNCHANGED notCliVars

\* deletionPlan, err := vmClient.DeletionPlan(ctx, globalOpts.Namespace, deleteOptions.Name)
CliDeletionPlan ==
    /\ cpc = "plan"
    /\ \E res \in {"ok", "err"} :
        /\ cliCalls' = Append(cliCalls, [method |-> "DeletionPlan", res |-> res])
        /\ IF res = "ok"
           THEN cpc' = (IF force THEN "delete" ELSE "confirm") /\ UNCHANGED cret
           ELSE CliReturn("err")
    /\ UNCHANGED <<force, stdin, userInput>>
    /\ UNCHANGED notCliVars

\* if !deleteOptions.Force { ... reader.ReadString('\n') ... "Aborting deletion..." }
CliConfirm ==
    /\ cpc = "confirm"
    /\ LET read == ReadString(stdin, "\n") IN
        /\ userInput' = read.line
        /\ stdin' = SubSeq(stdin, Len(read.line) + 1, Len(stdin))
        /\ IF read.err # "nil" THEN CliReturn("err")
           ELSE IF ~Confirmed(read.line) THEN CliReturn("nil")
           ELSE cpc' = "delete" /\ UNCHANGED cret
    /\ UNCHANGED <<force, cliCalls>>
    /\ UNCHANGED notCliVars

\* deletionPlan, err = vmClient.Delete(ctx, deletionPlan); return err or nil
CliDelete ==
    /\ cpc = "delete"
    /\ \E res \in {"ok", "err"} :
        /\ cliCalls' = Append(cliCalls, [method |-> "Delete", res |-> res])
        /\ CliReturn(IF res = "ok" THEN "nil" ELSE "err")
    /\ UNCHANGED <<force, stdin, userInput>>
    /\ UNCHANGED notCliVars

NextCli == CliConfig \/ CliDeletionPlan \/ CliConfirm \/ CliDelete

SpecCli == InitCli /\ [][NextCli]_vars

\* the command called vmClient.Delete, the only method that issues provider delete calls
DeleteInvoked == \E n \in 1..Len(cliCalls) : cliCalls[n].method = "Delete"

\* everything typed, consumed or not
Typed == userInput \o stdin

\* a full line was typed whose first character after leading blanks is y or Y
AnsweredYes ==
    \E n \in 1..Len(Typed) :
        /\ Typed[n] \in {"y", "Y"}
        /\ \A m \in 1..(n - 1) : Typed[m] = " "
        /\ \E k \in (n + 1)..Len(Typed) : Typed[k] = "\n"

\* no line feed was typed: the read fails
ReadFails == \A n \in 1..Len(Typed) : Typed[n] # "\n"

\* C34: without --force, vmClient.Delete is called only when the line read from standard
\* input, trimmed and lower-cased, begins with y; when the read fails the command returns
\* the error, and on any other answer it returns nil, in both cases without calling Delete.
C34_DeleteOnlyConfirmed ==
    /\ (DeleteInvoked /\ ~force) => AnsweredYes
    /\ (cpc = "returned" /\ ~force /\ cliCalls = <<[method |-> "DeletionPlan", res |-> "ok"]>>) =>
        /\ ~AnsweredYes
        /\ cret = (IF ReadFails THEN "err" ELSE "nil")
    /\ (cpc = "returned" /\ ~force /\ ~AnsweredYes) => ~DeleteInvoked

\* the user answered with blanks, a capital Y and a line feed, and Delete was called
C34_Witness ==
    /\ ~force
    /\ userInput = <<" ", "Y", "\n">>
    /\ DeleteInvoked

\* the user typed y without a line feed and the command returned the error of the read
C34_WitnessNoLine ==
    /\ ~force
    /\ Typed = <<"y">>
    /\ cpc = "returned"
    /\ cret = "err"
    /\ ~DeleteInvoked

----------------------------------------------------------------------------
(* What a Delete that returned nil leaves in the plan *)

\* C35: when Delete has returned nil, every id of every list of the DeletionSpec is marked
\* in the Status map of its kind, whether or not the map was nil at entry, and at no
\* moment does a Status map hold an id that its list of the DeletionSpec does not hold.
C35_SuccessMarksAll ==
    /\ (pc = "returned" /\ results[inv] = "nil") =>
        \A k \in KindSet : \A id \in Range(deletionPlan.Spec[k]) :
            /\ ~deletionPlan.Status[k].isNil
            /\ id \in deletionPlan.Status[k].ids
    /\ \A k \in KindSet :
        /\ deletionPlan.Status[k].ids \subseteq Range(deletionPlan.Spec[k])
        /\ deletionPlan.Status[k].isNil => deletionPlan.Status[k].ids = {}

\* the first Delete of a plan of two kinds, every map nil at entry, returned nil
C35_Witness ==
    /\ inv = 1
    /\ pc = "returned"
    /\ results[1] = "nil"
    /\ \A k \in KindSet : entry[k] = NilMap
    /\ Cardinality({k \in KindSet : deletionPlan.Spec[k] # <<>>}) = 2
    /\ \E k \in KindSet : deletionPlan.Spec[k] = <<>> /\ deletionPlan.Status[k] = NilMap

----------------------------------------------------------------------------
(* The resources Delete touches *)

\* the successful calls of invocation n that terminate or delete the resource id
SuccessfulDeletes(n, id) ==
    {p \in 1..Len(calls) :
        /\ calls[p].inv = n
        /\ calls[p].id = id
        /\ calls[p].res = "ok"
        /\ calls[p].api \in {"TerminateInstances", "DeleteLaunchTemplate",
                             "DeleteSecurityGroup", "DeleteInternetGateway",
                             "DeleteRouteTable", "DeleteSubnet", "DeleteVpc"}}

\* every call targets an id of the list of its kind, and no id is deleted twice
OnlyPlannedOnce ==
    /\ \A p \in 1..Len(calls) :
        calls[p].id \in Range(deletionPlan.Spec[calls[p].kind])
    /\ \A n \in 1..inv : \A k \in KindSet : \A id \in Ids[k] :
        Cardinality(SuccessfulDeletes(n, id)) <= 1

\* C36: every provider call of Delete targets an id listed in the DeletionSpec for its
\* kind, for each id at most one terminate or delete call succeeds per invocation, also
\* when the id is listed twice, and no step of Delete changes the DeletionSpec.
C36_OnlyPlannedOnce ==
    /\ []OnlyPlannedOnce
    /\ [][deletionPlan'.Spec = deletionPlan.Spec]_vars

\* Delete returned nil for a plan that lists the same instance twice
C36_Witness ==
    /\ pc = "returned"
    /\ results[inv] = "nil"
    /\ \E id \in Ids["Instances"] : deletionPlan.Spec["Instances"] = <<id, id>>
    /\ \E id \in Ids["Instances"] : Cardinality(SuccessfulDeletes(inv, id)) = 1

----------------------------------------------------------------------------
(* The sub-steps of igws.Watcher.Delete and routetables.Watcher.Delete *)

\* the calls of the api that invocation n issued for the resource id before call p
Before(p, api) ==
    {q \in 1..(p - 1) :
        calls[q].inv = calls[p].inv /\ calls[q].id = calls[p].id /\ calls[q].api = api}

\* the routes recorded for the route table that target an internet gateway
GatewayRoutes(id) ==
    {n \in 1..Len(described.Routes[id]) :
        described.Routes[id][n].GatewayId \in Ids["InternetGateways"]}

SubSteps == {"DetachInternetGateway", "DeleteRoute", "DisassociateRouteTable"}

\* C38: DeleteInternetGateway is issued only after one successful DetachInternetGateway
\* for every recorded attachment; DeleteRouteTable only after one successful DeleteRoute
\* for every recorded route to an internet gateway, followed by one successful
\* DisassociateRouteTable for every recorded association; a sub-step that failed is the
\* last call of its invocation, and the invocation returns the error.
C38_LinksBeforeResource ==
    \A p \in 1..Len(calls) :
        /\ calls[p].api = "DeleteInternetGateway" =>
            /\ Cardinality(Before(p, "DetachInternetGateway")) =
                    Len(described.Attachments[calls[p].id])
            /\ \A q \in Before(p, "DetachInternetGateway") : calls[q].res = "ok"
        /\ calls[p].api = "DeleteRouteTable" =>
            /\ Cardinality(Before(p, "DeleteRoute")) =
                    Cardinality(GatewayRoutes(calls[p].id))
            /\ Cardinality(Before(p, "DisassociateRouteTable")) =
                    Len(described.Associations[calls[p].id])
            /\ \A q \in Before(p, "DeleteRoute") \cup Before(p, "DisassociateRouteTable") :
                calls[q].res = "ok"
        /\ calls[p].api = "DisassociateRouteTable" =>
            /\ Cardinality(Before(p, "DeleteRoute")) =
                    Cardinality(GatewayRoutes(calls[p].id))
            /\ \A q \in Before(p, "DeleteRoute") : calls[q].res = "ok"
        /\ calls[p].api = "DeleteRoute" => Before(p, "DisassociateRouteTable") = {}
        /\ (calls[p].api \in SubSteps /\ calls[p].res = "err") =>
            /\ p = Len(calls) \/ calls[p + 1].inv > calls[p].inv
            /\ Len(results) >= calls[p].inv
            /\ results[calls[p].inv] = "err"

\* a route table with a route to the internet gateway and an association was deleted
C38_Witness ==
    \E p \in 1..Len(calls) :
        /\ calls[p].api = "DeleteRouteTable"
        /\ calls[p].res = "ok"
        /\ Before(p, "DeleteRoute") # {}
        /\ Before(p, "DisassociateRouteTable") # {}

\* a failed disassociation ended the invocation before DeleteRouteTable
C38_WitnessFailure ==
    /\ pc = "returned"
    /\ results[inv] = "err"
    /\ calls[Len(calls)].api = "DisassociateRouteTable"
    /\ calls[Len(calls)].res = "err"
    /\ Before(Len(calls), "DeleteRoute") # {}

----------------------------------------------------------------------------
(* The overrides of the fleet request *)

\* C37: whenever Launch has issued CreateFleet, the request carried at least one override,
\* built from a resolved AMI, an instance type that supports its architecture and a subnet
\* of the plan.
C37_FleetHasOverrides ==
    FleetRequested =>
        /\ frame.launchTemplateConfigs # <<>>
        /\ launchPlan.Status.AMIs # <<>>
        /\ launchPlan.Status.InstanceTypes # <<>>
        /\ launchPlan.Status.Subnets # <<>>

====
